---- MODULE Spec2Model ----
(***************************************************************************)
(* Verification model of the cx-case-study repository:                     *)
(*   2_ai_data_analyzer : router.py, quant_handler.py, qual_handler.py,    *)
(*                        llm_client.py, main.py (_run_chat)               *)
(*   1_complaints_tool  : theme_extractor.py (extract_themes)              *)
(*                                                                         *)
(* A question is a sequence of words (the text split at single blanks).    *)
(* Every regular expression of the source starts with \b, so a match can   *)
(* only begin at the start of a word, and a pattern is a sequence of sets  *)
(* of words: {w} for a literal word closed by \b, the set of the modelled  *)
(* words with a given prefix for a pattern left open at its end.           *)
(***************************************************************************)
EXTENDS Integers, Sequences, FiniteSets, TLC

VARIABLES
    cleaned_df,     \* the cleaned complaints frame given to Router(...)
    themes_df,      \* the theme table given to Router(...)
    quant_df,       \* QuantHandler.df: the handler's copy, after _prepare
    qual_df,        \* QualHandler.df: the handler's copy
    _ANTHROPIC_KEY, \* llm_client._ANTHROPIC_KEY is set (non-empty)
    _OPENAI_KEY,    \* llm_client._OPENAI_KEY is set (non-empty)
    pc,             \* position of the running call or loop
    user_input,     \* _run_chat: the line read by input(), stripped
    query,          \* the question last passed to classify / answer
    qtype,          \* classify's return value for it
    quant_hits,     \* classify's local quant_hits
    qual_hits,      \* classify's local qual_hits
    result,         \* the dict returned by the last call, None before / on raise
    exc,            \* the exception the last call raised, None when it returned
    calls,          \* the handlers and providers the last call invoked, in order
    provider_end,   \* how the provider call of the last call ended, None without one
    texts,          \* extract_themes: the documents, df[text_col].fillna("")
    requested,      \* extract_themes: the argument n_themes of the call
    n_themes,       \* extract_themes: the local n_themes, reassigned at line 110
    km_n_clusters,  \* the n_clusters KMeans was built with, 0 while it was not
    theme_id,       \* extract_themes: the column df["theme_id"] it adds
    records,        \* extract_themes: the theme table it returns
    answered,       \* the number of Router.answer calls made on the Router so far
    first_run,      \* what an earlier extract_themes call on the frame gave, None without one
    args,           \* the arguments of a function called on its own
    ret             \* what that call returned

configVars == <<cleaned_df, themes_df, quant_df, qual_df, _ANTHROPIC_KEY, _OPENAI_KEY>>
classifyVars == <<qtype, quant_hits, qual_hits>>
callVars == <<result, exc, calls, provider_end>>
extractVars == <<texts, requested, n_themes, km_n_clusters, theme_id, records>>

historyVars == <<answered, first_run>>
pureVars == <<args, ret>>

vars == <<configVars, pc, user_input, query, classifyVars, callVars, extractVars, historyVars,
         pureVars>>

None == "None"

Min(S) == CHOOSE x \in S : \A y \in S : x <= y
Max(S) == CHOOSE x \in S : \A y \in S : x >= y

\* All sequences over S of length 0..n.
BoundedSeq(S, n) == UNION {[1..k -> S] : k \in 0..n}

(***************************************************************************)
(* Words and case.  re.IGNORECASE / str.lower(): the words that occur      *)
(* capitalised in the modelled questions are folded to lower case.         *)
(***************************************************************************)
Lower(w) ==
    CASE w = "How" -> "how"
      [] w = "Why" -> "why"
      [] w = "What" -> "what"
      [] w = "App" -> "app"
      [] w = "Login" -> "login"
      [] w = "Issues" -> "issues"
      [] w = "Billing" -> "billing"
      [] w = "Fee" -> "fee"
      [] w = "Disputes" -> "disputes"
      [] w = "Total" -> "total"
      [] OTHER -> w

\* The modelled words that start with the given stem (pattern open at its end).
ThemeStem == {"theme", "themes"}
Digits == {"5"}

\* A pattern with one variant, all of whose words are literal.
Lit(ws) == << [j \in 1..Len(ws) |-> {ws[j]}] >>

(***************************************************************************)
(* router.py: the pattern lists.  A pattern is a sequence of variants (the *)
(* ways its optional parts can match, in the regex engine's order), a      *)
(* variant a sequence of word sets.  r"\btop \d*\s*theme" has two: with a  *)
(* number between the words and without.                                   *)
(***************************************************************************)
_QUANT_PATTERNS == <<
    Lit(<<"how", "many">>), Lit(<<"how", "much">>), Lit(<<"total">>), Lit(<<"count">>),
    Lit(<<"number", "of">>), Lit(<<"percentage">>), Lit(<<"percent">>), Lit(<<"rate">>),
    Lit(<<"frequency">>), Lit(<<"distribution">>), Lit(<<"breakdown">>), Lit(<<"trend">>),
    << <<{"top"}, Digits, ThemeStem>>, <<{"top"}, ThemeStem>> >>,
    Lit(<<"most", "common">>), Lit(<<"largest">>), Lit(<<"highest">>),
    Lit(<<"lowest">>), Lit(<<"average">>), Lit(<<"mean">>), Lit(<<"median">>),
    Lit(<<"by", "channel">>), Lit(<<"by", "month">>), Lit(<<"by", "week">>),
    Lit(<<"by", "product">>), Lit(<<"by", "severity">>), Lit(<<"which", "channel">>),
    Lit(<<"which", "product">>), Lit(<<"over", "time">>), Lit(<<"time", "series">>) >>

_QUAL_PATTERNS == <<
    Lit(<<"why">>), Lit(<<"what", "are", "customers", "saying">>), Lit(<<"describe">>),
    Lit(<<"summarise">>), Lit(<<"summarize">>), Lit(<<"examples">>),
    Lit(<<"show", "me", "examples">>), Lit(<<"what", "kind", "of">>), Lit(<<"explain">>),
    Lit(<<"issues", "with">>), Lit(<<"complaints", "about">>), Lit(<<"feelings">>),
    Lit(<<"sentiment">>), Lit(<<"pain", "point">>), Lit(<<"what", "is", "wrong">>),
    Lit(<<"what", "do", "customers">>), Lit(<<"what", "are", "the", "main">>) >>

\* Variant v matches the words of toks that start at position i (case folded).
VariantMatches(v, toks, i) ==
    /\ i + Len(v) - 1 <= Len(toks)
    /\ \A j \in 1..Len(v) : Lower(toks[i + j - 1]) \in v[j]

\* Number of words pattern p consumes at position i, 0 when it does not match.
PatternMatchLen(p, toks, i) ==
    LET ks == {k \in 1..Len(p) : VariantMatches(p[k], toks, i)}
    IN  IF ks = {} THEN 0 ELSE Len(p[Min(ks)])

\* re.compile("|".join(patterns)): at a position the first alternative, in list
\* order, that matches there is the match.
AltMatchLen(patterns, toks, i) ==
    LET ps == {k \in 1..Len(patterns) : PatternMatchLen(patterns[k], toks, i) > 0}
    IN  IF ps = {} THEN 0 ELSE PatternMatchLen(patterns[Min(ps)], toks, i)

\* len(RE.findall(query)): the matches are found left to right and do not
\* overlap; the scan resumes where the previous match ended.
RECURSIVE findall(_, _, _)
findall(patterns, toks, i) ==
    IF i > Len(toks) THEN 0
    ELSE LET n == AltMatchLen(patterns, toks, i)
         IN  IF n = 0 THEN findall(patterns, toks, i + 1)
             ELSE 1 + findall(patterns, toks, i + n)

_QUANT_RE(q) == findall(_QUANT_PATTERNS, q, 1)
_QUAL_RE(q) == findall(_QUAL_PATTERNS, q, 1)

\* re.search(r"\b(how|many|count|total|top|which|show)\b", query, re.I)
TieBreakWords == {"how", "many", "count", "total", "top", "which", "show"}
TieBreak(q) == \E i \in 1..Len(q) : Lower(q[i]) \in TieBreakWords

\* decide with the tie always resolved to "qual".
decide_tie_qual(quant, qual, q) ==
    IF quant > qual THEN "quant" ELSE "qual"

\* classify, lines 53-60: the comparison of the two counts and the tie-break.
decide(quant, qual, q) ==
    IF quant > qual THEN "quant"
    ELSE IF qual > quant THEN "qual"
    ELSE IF TieBreak(q) THEN "quant"
    ELSE "qual"

\* classify: its two locals and its return value.
classification(q) ==
    LET quant == _QUANT_RE(q)
        qual == _QUAL_RE(q)
    IN  [quant_hits |-> quant, qual_hits |-> qual, qtype |-> decide(quant, qual, q)]

classify(q) == classification(q).qtype

(***************************************************************************)
(* Data frames.  A frame is [cols: the set of its column names, rows: the  *)
(* sequence of its rows]; a row is a function from column names to cell    *)
(* values and a cell of a column the frame lacks is never read.  A text    *)
(* cell holds the id of a text [id, words: the words it contains, len: its *)
(* length in characters].                                                  *)
(***************************************************************************)
Null == "NaN"

\* How a call ends: the value it returns or the exception it raises, and the
\* completion functions it invoked on the way.
Ok(v) == [exc |-> None, value |-> v, calls |-> <<>>]
Raise(e) == [exc |-> e, value |-> None, calls |-> <<>>]

TxtApp == "app"
TxtBill == "bill"
TxtTiny == "tiny"

\* The texts the modelled cells hold, by id.
Text(id) ==
    CASE id = TxtApp  -> [id |-> id, words |-> {"app", "crash", "login"}, len |-> 42]
      [] id = TxtBill -> [id |-> id, words |-> {"billing", "fee", "charged"}, len |-> 130]
      [] id = TxtTiny -> [id |-> id, words |-> {"refund"}, len |-> 12]

RowA == [complaint_text |-> TxtApp, text_clean |-> TxtApp, theme_id |-> 0,
         channel |-> "email", severity |-> "high", date |-> "2024-01-05",
         product_category |-> "cards"]
RowB == [complaint_text |-> TxtBill, text_clean |-> TxtBill, theme_id |-> 1,
         channel |-> "phone", severity |-> "low", date |-> "2024-02-10",
         product_category |-> "loans"]
RowC == [complaint_text |-> Null, text_clean |-> TxtTiny, theme_id |-> 1,
         channel |-> Null, severity |-> Null, date |-> "n/a",
         product_category |-> Null]

RowValues == {RowA, RowB, RowC}

AllCols == {"complaint_text", "text_clean", "theme_id", "channel", "severity",
            "date", "product_category"}

\* The column sets of the modelled frames: every column, one column missing,
\* and the text column alone.
Schemas == {AllCols} \cup {AllCols \ {c} : c \in AllCols} \cup {{"text_clean"}}

MaxRows == 2

Datasets == {[cols |-> cs, rows |-> rs] : cs \in Schemas, rs \in BoundedSeq(RowValues, MaxRows)}

\* A theme table row: theme_id, label, count (top_keywords and example_texts
\* are not read by the analyzer).
ThemeApp  == [theme_id |-> 0, label |-> <<"App", "&", "Login", "Issues">>, count |-> 3]
ThemeBill == [theme_id |-> 1, label |-> <<"Billing", "&", "Fee", "Disputes">>, count |-> 2]

\* The billing theme as the largest one: the table is kept sorted by count.
ThemeBillTop == [ThemeBill EXCEPT !.count = 4]

ThemeTables == {<<>>, <<ThemeApp, ThemeBill>>, <<ThemeBillTop, ThemeApp>>}

\* The rows' indices, and the non-null cells of a column.
RowIdx(df) == 1..Len(df.rows)
NonNull(df, col) == {i \in RowIdx(df) : df.rows[i][col] # Null}

\* Series.value_counts(): the count of every non-null value of the column.
value_counts(df, col) ==
    [v \in {df.rows[i][col] : i \in NonNull(df, col)} |->
        Cardinality({i \in RowIdx(df) : df.rows[i][col] = v})]

\* value_counts().index[0]: the most frequent value (of several, the one met
\* first); the index of an empty Series has no position 0.
TopValue(df, col) ==
    LET vc == value_counts(df, col)
        best == {i \in NonNull(df, col) :
                    \A j \in NonNull(df, col) : vc[df.rows[j][col]] <= vc[df.rows[i][col]]}
    IN  IF DOMAIN vc = {} THEN Raise("IndexError")
        ELSE Ok([value |-> df.rows[Min(best)][col], count |-> vc[df.rows[Min(best)][col]]])

(***************************************************************************)
(* quant_handler.py                                                        *)
(***************************************************************************)
\* pd.to_datetime(..., errors="coerce"): the dates the model reads, with their
\* month and week periods; anything else becomes NaT.
Calendar == [month |-> [d \in {"2024-01-05", "2024-02-10"} |->
                            IF d = "2024-01-05" THEN "2024-01" ELSE "2024-02"],
             week  |-> [d \in {"2024-01-05", "2024-02-10"} |->
                            IF d = "2024-01-05" THEN "2024-01-01/2024-01-07"
                                                ELSE "2024-02-05/2024-02-11"]]
NaT == "NaT"
to_datetime(d) == IF d \in DOMAIN Calendar.month THEN d ELSE NaT

\* Series.dt.to_period(freq).astype(str): a missing date becomes the string "NaT".
to_period_str(d, freq) == IF d = NaT THEN "NaT" ELSE Calendar[freq][d]

\* QuantHandler._prepare: the derived columns _date, _month, _week.
_prepare(df) ==
    IF "date" \in df.cols
    THEN [cols |-> df.cols \cup {"_date", "_month", "_week"},
          rows |-> [i \in RowIdx(df) |->
                      LET d == to_datetime(df.rows[i]["date"])
                      IN  ("_date" :> d) @@ ("_month" :> to_period_str(d, "month"))
                          @@ ("_week" :> to_period_str(d, "week")) @@ df.rows[i]]]
    ELSE df

\* The modelled words that begin with each stem the handler's patterns leave open.
Stem(prefix) ==
    CASE prefix = "cluster" -> {"cluster", "clusters"}
      [] prefix = "topic" -> {"topic", "topics"}
      [] prefix = "channel" -> {"channel", "channels"}
      [] prefix = "email" -> {"email", "emails"}
      [] prefix = "phone" -> {"phone", "phones"}
      [] prefix = "chat" -> {"chat", "chats"}
      [] prefix = "trend" -> {"trend", "trends"}
      [] prefix = "month" -> {"month", "monthly", "months"}
      [] prefix = "week" -> {"week", "weekly", "weeks"}
      [] prefix = "time" -> {"time", "times"}
      [] prefix = "severity" -> {"severity"}
      [] prefix = "high" -> {"high", "highest"}
      [] prefix = "critical" -> {"critical"}
      [] prefix = "urgent" -> {"urgent"}
      [] prefix = "product" -> {"product", "products"}
      [] prefix = "category" -> {"category"}
      [] prefix = "mortgage" -> {"mortgage", "mortgages"}
      [] prefix = "loan" -> {"loan", "loans"}

\* The patterns of handle's seven re.search calls, in the order of the ifs.
CountPatterns == << Lit(<<"how", "many">>), Lit(<<"total">>), Lit(<<"count">>),
                    Lit(<<"number", "of">>) >>
TopThemePatterns == << << <<{"top"}, ThemeStem>> >>, << <<{"biggest"}, ThemeStem>> >>,
                       << <<{"most"}, {"common"}, ThemeStem>> >>,
                       Lit(<<"largest", "theme">>) >>
ThemePatterns == << << <<ThemeStem>> >>, << <<Stem("cluster")>> >>, << <<Stem("topic")>> >>,
                    Lit(<<"segment">>) >>
ChannelPatterns == << << <<Stem("channel")>> >>, << <<Stem("email")>> >>, << <<Stem("phone")>> >>,
                      << <<Stem("chat")>> >>, Lit(<<"social">>) >>
TrendPatterns == << << <<Stem("trend")>> >>, << <<Stem("month")>> >>, << <<Stem("week")>> >>,
                    << <<{"over"}, Stem("time")>> >>, Lit(<<"time", "series">>) >>
SeverityPatterns == << << <<Stem("severity")>> >>, << <<Stem("high")>> >>, << <<Stem("critical")>> >>,
                       << <<Stem("urgent")>> >>, Lit(<<"low">>) >>
ProductPatterns == << << <<Stem("product")>> >>, << <<Stem("category")>> >>, << <<Stem("mortgage")>> >>,
                      << <<Stem("loan")>> >>, Lit(<<"credit", "card">>) >>

\* re.search(pattern, q): some alternative matches somewhere.
search(patterns, toks) == \E i \in 1..Len(toks) : AltMatchLen(patterns, toks, i) > 0

\* "theme" in q, "week" in q: the modelled words that contain the substring.
HasTheme(q) == \E i \in 1..Len(q) : Lower(q[i]) \in ThemeStem
HasWeek(q) == \E i \in 1..Len(q) : Lower(q[i]) \in Stem("week")

NotFound(template) == Ok([answer |-> [template |-> template], data |-> <<>>,
                          confidence |-> "N/A"])

\* QuantHandler._count_query
_count_query(df, themes, q) ==
    LET total == Len(df.rows)
        theme_extra == HasTheme(q) /\ Len(themes) > 0
        top_ch == TopValue(df, "channel")
    IN  IF theme_extra /\ total = 0 THEN Raise("ZeroDivisionError")
        ELSE IF "channel" \in df.cols /\ top_ch.exc # None THEN Raise(top_ch.exc)
        ELSE Ok([answer |-> [template |-> "count", total |-> total,
                             largest_theme |-> IF theme_extra THEN themes[1].label ELSE None,
                             top_channel |-> IF "channel" \in df.cols
                                             THEN top_ch.value ELSE None],
                 data |-> [total_complaints |-> total],
                 confidence |-> [based_on |-> total]])

\* QuantHandler._top_themes_query: row['label'] indexes the named tuple that
\* itertuples() yields with a string, a TypeError for the first theme row.
_top_themes_query(df, themes) ==
    IF Len(themes) > 0 THEN Raise("TypeError")
    ELSE Ok([answer |-> [template |-> "top_themes", rows |-> <<>>],
             data |-> <<>>,
             confidence |-> [based_on |-> Len(df.rows), themes |-> Len(themes)]])

\* QuantHandler._all_themes_query
_all_themes_query(df, themes) == _top_themes_query(df, themes)

\* The body shared by _channel_query, _severity_query and _product_query once
\* the column is known to exist.
Breakdown(df, col) ==
    Ok([answer |-> [template |-> "breakdown", by |-> col, rows |-> value_counts(df, col)],
        data |-> value_counts(df, col),
        confidence |-> [based_on |-> Len(df.rows)]])

\* QuantHandler._channel_query
_channel_query(df) ==
    IF "channel" \notin df.cols THEN NotFound("no_channel_column")
    ELSE Breakdown(df, "channel")

\* DataFrame.groupby(period_col).size(): one record per value of the column.
GroupSizes(df, col) ==
    {[period |-> p, count |-> Cardinality({i \in RowIdx(df) : df.rows[i][col] = p})] :
        p \in {df.rows[i][col] : i \in NonNull(df, col)}}

\* QuantHandler._trend_query
_trend_query(df, q) ==
    IF "_month" \notin df.cols THEN NotFound("no_date_column")
    ELSE LET period_col == IF HasWeek(q) THEN "_week" ELSE "_month"
             trend == GroupSizes(df, period_col)
         IN  Ok([answer |-> [template |-> "trend", period_col |-> period_col, rows |-> trend],
                 data |-> trend,
                 confidence |-> [based_on |-> Len(df.rows), periods |-> Cardinality(trend)]])

\* _severity_query reading the column without testing for it.
_severity_query_unguarded(df) ==
    IF "severity" \notin df.cols THEN Raise("KeyError")
    ELSE Breakdown(df, "severity")

\* QuantHandler._severity_query
_severity_query(df) ==
    IF "severity" \notin df.cols THEN NotFound("no_severity_column")
    ELSE Breakdown(df, "severity")

\* QuantHandler._product_query
_product_query(df) ==
    LET found == {c \in {"product_category", "product", "category"} : c \in df.cols}
        col == IF "product_category" \in found THEN "product_category"
               ELSE IF "product" \in found THEN "product" ELSE "category"
    IN  IF found = {} THEN NotFound("no_product_column")
        ELSE Breakdown(df, col)

\* QuantHandler._general_stats
_general_stats(df, themes) ==
    LET total == Len(df.rows)
        top_ch == TopValue(df, "channel")
    IN  IF "channel" \in df.cols /\ top_ch.exc # None THEN Raise(top_ch.exc)
        ELSE IF "severity" \in df.cols /\ total = 0 THEN Raise("ZeroDivisionError")
        ELSE Ok([answer |-> [template |-> "summary", total |-> total,
                             top_theme |-> IF Len(themes) > 0 THEN themes[1].label ELSE None,
                             top_channel |-> IF "channel" \in df.cols
                                             THEN top_ch.value ELSE None,
                             high |-> IF "severity" \in df.cols
                                      THEN Cardinality({i \in RowIdx(df) :
                                                df.rows[i]["severity"] = "high"})
                                      ELSE None],
                 data |-> [total |-> total],
                 confidence |-> [based_on |-> total]])

LowerAll(q) == [i \in 1..Len(q) |-> Lower(q[i])]

\* The result of a call of the method `name`, the method put first among the
\* calls made.
Called(name, r) == [r EXCEPT !.calls = <<name>> \o @]

\* handle testing the channel pattern before the count pattern.
QuantHandle_channel_first(df, themes, qry) ==
    LET q == LowerAll(qry)
    IN  IF search(ChannelPatterns, q)
        THEN Called("_channel_query", _channel_query(df))
        ELSE IF search(CountPatterns, q)
        THEN Called("_count_query", _count_query(df, themes, q))
        ELSE IF search(TopThemePatterns, q)
        THEN Called("_top_themes_query", _top_themes_query(df, themes))
        ELSE IF search(ThemePatterns, q)
        THEN Called("_all_themes_query",
                    Called("_top_themes_query", _all_themes_query(df, themes)))
        ELSE IF search(TrendPatterns, q)
        THEN Called("_trend_query", _trend_query(df, q))
        ELSE IF search(SeverityPatterns, q)
        THEN Called("_severity_query", _severity_query(df))
        ELSE IF search(ProductPatterns, q)
        THEN Called("_product_query", _product_query(df))
        ELSE Called("_general_stats", _general_stats(df, themes))

\* QuantHandler.handle
QuantHandle(df, themes, qry) ==
    LET q == LowerAll(qry)
    IN  IF search(CountPatterns, q)
        THEN Called("_count_query", _count_query(df, themes, q))
        ELSE IF search(TopThemePatterns, q)
        THEN Called("_top_themes_query", _top_themes_query(df, themes))
        ELSE IF search(ThemePatterns, q)
        THEN Called("_all_themes_query",
                    Called("_top_themes_query", _all_themes_query(df, themes)))
        ELSE IF search(ChannelPatterns, q)
        THEN Called("_channel_query", _channel_query(df))
        ELSE IF search(TrendPatterns, q)
        THEN Called("_trend_query", _trend_query(df, q))
        ELSE IF search(SeverityPatterns, q)
        THEN Called("_severity_query", _severity_query(df))
        ELSE IF search(ProductPatterns, q)
        THEN Called("_product_query", _product_query(df))
        ELSE Called("_general_stats", _general_stats(df, themes))

(***************************************************************************)
(* llm_client.py                                                           *)
(***************************************************************************)
\* s[:n] on a text: its first n characters.
Truncate(t, n) == [t EXCEPT !.len = IF t.len < n THEN t.len ELSE n]

Head_n(sq, n) == SubSeq(sq, 1, IF Len(sq) < n THEN Len(sq) ELSE n)

\* The ways a provider call can end: with a reply, or with an exception (the
\* package cannot be imported, the API call fails, the reply has no content).
ProviderOutcomes == {"ok", "ImportError", "APIError", "IndexError"}
Failures == ProviderOutcomes \ {"ok"}

\* llm_client._anthropic: try ... except Exception
_anthropic(prompt, outcome) ==
    IF outcome = "ok"
    THEN [exc |-> None, value |-> <<[kind |-> "reply", of |-> "claude-3-haiku"], "anthropic">>,
          calls |-> <<"_anthropic">>]
    ELSE [exc |-> None,
          value |-> <<[kind |-> "bracketed_error", of |-> "Anthropic", error |-> outcome],
                      "anthropic-error">>,
          calls |-> <<"_anthropic">>]

\* _openai catching ImportError alone: any other exception leaves the function.
_openai_narrow_except(prompt, outcome) ==
    IF outcome = "ok"
    THEN [exc |-> None, value |-> <<[kind |-> "reply", of |-> "gpt-3.5-turbo"], "openai">>,
          calls |-> <<"_openai">>]
    ELSE IF outcome = "ImportError"
    THEN [exc |-> None,
          value |-> <<[kind |-> "bracketed_error", of |-> "OpenAI", error |-> outcome],
                      "openai-error">>,
          calls |-> <<"_openai">>]
    ELSE [exc |-> outcome, value |-> None, calls |-> <<"_openai">>]

\* llm_client._openai: try ... except Exception
_openai(prompt, outcome) ==
    IF outcome = "ok"
    THEN [exc |-> None, value |-> <<[kind |-> "reply", of |-> "gpt-3.5-turbo"], "openai">>,
          calls |-> <<"_openai">>]
    ELSE [exc |-> None,
          value |-> <<[kind |-> "bracketed_error", of |-> "OpenAI", error |-> outcome],
                      "openai-error">>,
          calls |-> <<"_openai">>]

(***************************************************************************)
(* A string is a sequence of pieces: a mark (one space, dash or double     *)
(* quote) or a run of text of a given length that begins and ends with     *)
(* none of them and holds no line break.  A prompt is its sequence of      *)
(* lines (prompt.splitlines()).                                            *)
(***************************************************************************)
Ch(c) == [ch |-> c, id |-> "", len |-> 1]
Run(t) == [ch |-> "txt", id |-> t.id, len |-> t.len]
Plain(id, n) == << [ch |-> "txt", id |-> id, len |-> n] >>

RECURSIVE lstrip(_, _)
lstrip(s, chars) ==
    IF s # <<>> /\ s[1].ch \in chars THEN lstrip(Tail(s), chars) ELSE s

RECURSIVE rstrip(_, _)
rstrip(s, chars) ==
    IF s # <<>> /\ s[Len(s)].ch \in chars THEN rstrip(SubSeq(s, 1, Len(s) - 1), chars) ELSE s

\* str.strip(chars); str.strip() is strip(s, {" "}).
strip(s, chars) == rstrip(lstrip(s, chars), chars)

startswith(s, c) == s # <<>> /\ s[1].ch = c

RECURSIVE len(_)
len(s) == IF s = <<>> THEN 0 ELSE s[1].len + len(Tail(s))

\* s[:n]
RECURSIVE Slice(_, _)
Slice(s, n) ==
    IF s = <<>> \/ n <= 0 THEN <<>>
    ELSE IF s[1].len <= n THEN <<s[1]>> \o Slice(Tail(s), n - s[1].len)
    ELSE << [s[1] EXCEPT !.len = n] >>

\* line.strip().lstrip("-").strip().strip('"').strip()
Unmarked(line) ==
    strip(strip(strip(lstrip(strip(line, {" "}), {"-"}), {" "}), {"\""}), {" "})

\* _no_key keeping the examples of 15 characters too.
_no_key_from_15(prompt) ==
    LET IsBullet(line) == \/ startswith(strip(line, {" "}), "-")
                          \/ startswith(strip(line, {" "}), "\"")
        marked == SelectSeq(prompt.lines, IsBullet)
        LongEnough(e) == len(e) >= 15
        examples == Head_n(SelectSeq([i \in 1..Len(marked) |-> Unmarked(marked[i])],
                                     LongEnough), 4)
    IN  IF Len(examples) > 0
        THEN [kind |-> "no_key_bullets",
              bullets |-> [i \in 1..Len(examples) |-> Slice(examples[i], 120)]]
        ELSE [kind |-> "no_key_template"]

\* llm_client._no_key: the prompt lines that start with "-" or a quote, with
\* their marks stripped; those longer than 15 characters, the first 4 of
\* them, each cut to 120 characters.
_no_key(prompt) ==
    LET IsBullet(line) == \/ startswith(strip(line, {" "}), "-")
                          \/ startswith(strip(line, {" "}), "\"")
        marked == SelectSeq(prompt.lines, IsBullet)
        LongEnough(e) == len(e) > 15
        examples == Head_n(SelectSeq([i \in 1..Len(marked) |-> Unmarked(marked[i])],
                                     LongEnough), 4)
    IN  IF Len(examples) > 0
        THEN [kind |-> "no_key_bullets",
              bullets |-> [i \in 1..Len(examples) |-> Slice(examples[i], 120)]]
        ELSE [kind |-> "no_key_template"]

\* complete trying the next provider, then the fallback, after a failure.
complete_fall_through(prompt, anthropic_key, openai_key, outcome) ==
    LET a == _anthropic(prompt, outcome)
        o == _openai(prompt, outcome)
        n == [exc |-> None, value |-> <<_no_key(prompt), "no-key">>, calls |-> <<"_no_key">>]
        first == IF anthropic_key THEN <<a>> ELSE <<>>
        second == IF openai_key /\ (~anthropic_key \/ outcome # "ok") THEN <<o>> ELSE <<>>
        tried == first \o second
        chain == IF tried = <<>> \/ outcome # "ok" THEN tried \o <<n>> ELSE tried
        RECURSIVE AllCalls(_)
        AllCalls(i) == IF i > Len(chain) THEN <<>> ELSE chain[i].calls \o AllCalls(i + 1)
    IN  [chain[Len(chain)] EXCEPT !.calls = <<"complete">> \o AllCalls(1)]

\* complete asking OpenAI before Anthropic.
complete_openai_first(prompt, anthropic_key, openai_key, outcome) ==
    IF openai_key THEN
        LET r == _openai(prompt, outcome)
        IN  [r EXCEPT !.calls = <<"complete">> \o @]
    ELSE IF anthropic_key THEN
        LET r == _anthropic(prompt, outcome)
        IN  [r EXCEPT !.calls = <<"complete">> \o @]
    ELSE [exc |-> None, value |-> <<_no_key(prompt), "no-key">>,
          calls |-> <<"complete", "_no_key">>]

\* llm_client.complete: Anthropic, else OpenAI, else the rule-based fallback.
complete(prompt, anthropic_key, openai_key, outcome) ==
    IF anthropic_key THEN
        LET r == _anthropic(prompt, outcome)
        IN  [r EXCEPT !.calls = <<"complete">> \o @]
    ELSE IF openai_key THEN
        LET r == _openai(prompt, outcome)
        IN  [r EXCEPT !.calls = <<"complete">> \o @]
    ELSE [exc |-> None, value |-> <<_no_key(prompt), "no-key">>,
          calls |-> <<"complete", "_no_key">>]

(***************************************************************************)
(* qual_handler.py                                                         *)
(***************************************************************************)
_MAX_EXAMPLES == 8

\* QualHandler.__init__: self._text_col
_text_col(df) == IF "complaint_text" \in df.cols THEN "complaint_text" ELSE "text_clean"

\* len(w) > 3 over the modelled words: every word but these few short ones.
ShortWords == {"how", "why", "top", "me", "by", "app", "fee", "5", "&", "are", "in",
               "the", "of", "low", "is", "do", ""}

StopSet == {"what", "show", "give", "tell", "about", "with", "from",
            "that", "have", "more", "some", "many", "which", "this",
            "they", "their", "customers", "complaints", "issues"}

\* The keyword k occurs in the word w of a text (case-insensitive substring).
Substrings == {<<"bill", "billing">>, <<"charge", "charged">>}
Contains(text, k) == \E w \in Text(text).words : k = w \/ <<k, w>> \in Substrings

\* The members of a set of row indices, in row order.
RECURSIVE SeqOf(_)
SeqOf(idx) == IF idx = {} THEN <<>> ELSE <<Min(idx)>> \o SeqOf(idx \ {Min(idx)})

\* A column whose cells are all missing is read from CSV as float64, and the
\* .str accessor of such a Series raises AttributeError.
StrAccessorFails(df, col) == Len(df.rows) > 0 /\ NonNull(df, col) = {}

\* _retrieve without the fall-back to the full pool when no row has a keyword.
_retrieve_no_fallback(df, themes, qry) ==
    LET q_lower == LowerAll(qry)
        query_words == {q_lower[i] : i \in 1..Len(q_lower)}
        label_words(t) == {Lower(t.label[j]) : j \in 1..Len(t.label)}
        hits == {k \in 1..Len(themes) : label_words(themes[k]) \cap query_words # {}}
        narrowed == hits # {}
        pool == IF narrowed
                THEN {i \in RowIdx(df) : df.rows[i]["theme_id"] = themes[Min(hits)].theme_id}
                ELSE RowIdx(df)
        keywords == {q_lower[i] : i \in {j \in 1..Len(q_lower) :
                        q_lower[j] \notin ShortWords /\ q_lower[j] \notin StopSet}}
        search_col == IF "text_clean" \in df.cols THEN "text_clean" ELSE _text_col(df)
        mask == {i \in pool : /\ df.rows[i][search_col] # Null
                              /\ \E k \in keywords : Contains(df.rows[i][search_col], k)}
        matched == IF keywords # {} THEN mask ELSE pool
        shown == {i \in matched : df.rows[i][_text_col(df)] # Null}
        examples == Head_n([k \in 1..Cardinality(shown) |->
                               df.rows[SeqOf(shown)[k]][_text_col(df)]], _MAX_EXAMPLES)
    IN  IF narrowed /\ "theme_id" \notin df.cols THEN Raise("KeyError")
        ELSE IF keywords # {} /\ search_col \notin df.cols THEN Raise("KeyError")
        ELSE IF keywords # {} /\ StrAccessorFails(df, search_col) THEN Raise("AttributeError")
        ELSE IF _text_col(df) \notin df.cols THEN Raise("KeyError")
        ELSE Ok(<<examples, [matched |-> Cardinality(matched), showing |-> Len(examples)]>>)

\* _retrieve whose theme loop has no break: the last matching theme wins.
_retrieve_last_theme(df, themes, qry) ==
    LET q_lower == LowerAll(qry)
        query_words == {q_lower[i] : i \in 1..Len(q_lower)}
        label_words(t) == {Lower(t.label[j]) : j \in 1..Len(t.label)}
        hits == {k \in 1..Len(themes) : label_words(themes[k]) \cap query_words # {}}
        narrowed == hits # {}
        pool == IF narrowed
                THEN {i \in RowIdx(df) : df.rows[i]["theme_id"] = themes[Max(hits)].theme_id}
                ELSE RowIdx(df)
        keywords == {q_lower[i] : i \in {j \in 1..Len(q_lower) :
                        q_lower[j] \notin ShortWords /\ q_lower[j] \notin StopSet}}
        search_col == IF "text_clean" \in df.cols THEN "text_clean" ELSE _text_col(df)
        mask == {i \in pool : /\ df.rows[i][search_col] # Null
                              /\ \E k \in keywords : Contains(df.rows[i][search_col], k)}
        matched0 == IF keywords # {} THEN mask ELSE pool
        matched == IF matched0 = {} THEN pool ELSE matched0
        shown == {i \in matched : df.rows[i][_text_col(df)] # Null}
        examples == Head_n([k \in 1..Cardinality(shown) |->
                               df.rows[SeqOf(shown)[k]][_text_col(df)]], _MAX_EXAMPLES)
    IN  IF narrowed /\ "theme_id" \notin df.cols THEN Raise("KeyError")
        ELSE IF keywords # {} /\ search_col \notin df.cols THEN Raise("KeyError")
        ELSE IF keywords # {} /\ StrAccessorFails(df, search_col) THEN Raise("AttributeError")
        ELSE IF _text_col(df) \notin df.cols THEN Raise("KeyError")
        ELSE Ok(<<examples, [matched |-> Cardinality(matched), showing |-> Len(examples)]>>)

\* _retrieve without .head(_MAX_EXAMPLES): every matched text is an example.
_retrieve_uncapped(df, themes, qry) ==
    LET q_lower == LowerAll(qry)
        query_words == {q_lower[i] : i \in 1..Len(q_lower)}
        label_words(t) == {Lower(t.label[j]) : j \in 1..Len(t.label)}
        hits == {k \in 1..Len(themes) : label_words(themes[k]) \cap query_words # {}}
        narrowed == hits # {}
        pool == IF narrowed
                THEN {i \in RowIdx(df) : df.rows[i]["theme_id"] = themes[Min(hits)].theme_id}
                ELSE RowIdx(df)
        keywords == {q_lower[i] : i \in {j \in 1..Len(q_lower) :
                        q_lower[j] \notin ShortWords /\ q_lower[j] \notin StopSet}}
        search_col == IF "text_clean" \in df.cols THEN "text_clean" ELSE _text_col(df)
        mask == {i \in pool : /\ df.rows[i][search_col] # Null
                              /\ \E k \in keywords : Contains(df.rows[i][search_col], k)}
        matched0 == IF keywords # {} THEN mask ELSE pool
        matched == IF matched0 = {} THEN pool ELSE matched0
        shown == {i \in matched : df.rows[i][_text_col(df)] # Null}
        examples == [k \in 1..Cardinality(shown) |-> df.rows[SeqOf(shown)[k]][_text_col(df)]]
    IN  IF narrowed /\ "theme_id" \notin df.cols THEN Raise("KeyError")
        ELSE IF keywords # {} /\ search_col \notin df.cols THEN Raise("KeyError")
        ELSE IF keywords # {} /\ StrAccessorFails(df, search_col) THEN Raise("AttributeError")
        ELSE IF _text_col(df) \notin df.cols THEN Raise("KeyError")
        ELSE Ok(<<examples, [matched |-> Cardinality(matched), showing |-> Len(examples)]>>)

\* QualHandler._retrieve: (examples, retrieval info); pools are sets of row
\* indices of df, read in row order.
_retrieve(df, themes, qry) ==
    LET q_lower == LowerAll(qry)
        query_words == {q_lower[i] : i \in 1..Len(q_lower)}
        label_words(t) == {Lower(t.label[j]) : j \in 1..Len(t.label)}
        hits == {k \in 1..Len(themes) : label_words(themes[k]) \cap query_words # {}}
        narrowed == hits # {}
        pool == IF narrowed
                THEN {i \in RowIdx(df) : df.rows[i]["theme_id"] = themes[Min(hits)].theme_id}
                ELSE RowIdx(df)
        keywords == {q_lower[i] : i \in {j \in 1..Len(q_lower) :
                        q_lower[j] \notin ShortWords /\ q_lower[j] \notin StopSet}}
        search_col == IF "text_clean" \in df.cols THEN "text_clean" ELSE _text_col(df)
        mask == {i \in pool : /\ df.rows[i][search_col] # Null
                              /\ \E k \in keywords : Contains(df.rows[i][search_col], k)}
        matched0 == IF keywords # {} THEN mask ELSE pool
        matched == IF matched0 = {} THEN pool ELSE matched0
        shown == {i \in matched : df.rows[i][_text_col(df)] # Null}
        examples == Head_n([k \in 1..Cardinality(shown) |->
                               df.rows[SeqOf(shown)[k]][_text_col(df)]], _MAX_EXAMPLES)
    IN  IF narrowed /\ "theme_id" \notin df.cols THEN Raise("KeyError")
        ELSE IF keywords # {} /\ search_col \notin df.cols THEN Raise("KeyError")
        ELSE IF keywords # {} /\ StrAccessorFails(df, search_col) THEN Raise("AttributeError")
        ELSE IF _text_col(df) \notin df.cols THEN Raise("KeyError")
        ELSE Ok(<<examples, [matched |-> Cardinality(matched), showing |-> Len(examples)]>>)

\* QualHandler._summarise, lines 96-106: the prompt, line by line; each
\* example is a line  - "<its first 200 characters>".
PromptOf(qry, examples) ==
    [question |-> qry,
     lines |-> << Plain("A customer experience analyst is reviewing", 67), <<>>,
                  Plain("Question: ", 10 + Len(qry)), <<>>,
                  Plain("Relevant complaint examples", 42) >>
               \o [i \in 1..Len(examples) |->
                      << Ch("-"), Ch(" "), Ch("\""), Run(Truncate(Text(examples[i]), 200)),
                         Ch("\"") >>]
               \o << <<>>, Plain("Provide a concise analysis", 47),
                     Plain("1. Identifies", 33), Plain("2. Notes", 63),
                     Plain("3. Suggests", 47) >>]

\* _summarise without the early return for an empty example list.
_summarise_always_complete(qry, examples, anthropic_key, openai_key, outcome) ==
    complete(PromptOf(qry, examples), anthropic_key, openai_key, outcome)

\* QualHandler._summarise
_summarise(qry, examples, anthropic_key, openai_key, outcome) ==
    IF Len(examples) = 0
    THEN [exc |-> None, value |-> <<[kind |-> "no_relevant_complaints"], "no-key">>,
          calls |-> <<>>]
    ELSE complete(PromptOf(qry, examples), anthropic_key, openai_key, outcome)

\* QualHandler.handle
QualHandle(df, themes, qry, anthropic_key, openai_key, outcome) ==
    LET r == _retrieve(df, themes, qry)
        s == _summarise(qry, r.value[1], anthropic_key, openai_key, outcome)
    IN  IF r.exc # None THEN Raise(r.exc)
        ELSE IF s.exc # None THEN [exc |-> s.exc, value |-> None, calls |-> s.calls]
        ELSE [exc |-> s.exc,
              value |-> [answer |-> s.value[1], examples |-> Head_n(r.value[1], 3),
                         confidence |-> r.value[2], llm_mode |-> s.value[2]],
              calls |-> s.calls]

(***************************************************************************)
(* router.py: Router                                                       *)
(***************************************************************************)
Tagged(r, handler, tag) ==
    [exc |-> r.exc,
     value |-> IF r.exc = None THEN ("query_type" :> tag) @@ r.value ELSE None,
     calls |-> <<handler>> \o r.calls]

\* dispatch with the second branch tagged like the first.
dispatch_same_tag(qtype_, qdf, ldf, themes, qry, anthropic_key, openai_key, outcome) ==
    IF qtype_ = "quant"
    THEN Tagged(QuantHandle(qdf, themes, qry), "quant.handle", "quantitative")
    ELSE Tagged(QualHandle(ldf, themes, qry, anthropic_key, openai_key, outcome),
                "qual.handle", "quantitative")

\* Router.answer, lines 73-79: one handler by qtype, the tag added to the dict
\* it returned.
dispatch(qtype_, qdf, ldf, themes, qry, anthropic_key, openai_key, outcome) ==
    IF qtype_ = "quant"
    THEN Tagged(QuantHandle(qdf, themes, qry), "quant.handle", "quantitative")
    ELSE Tagged(QualHandle(ldf, themes, qry, anthropic_key, openai_key, outcome),
                "qual.handle", "qualitative")

\* Router.answer
answer(qdf, ldf, themes, qry, anthropic_key, openai_key, outcome) ==
    dispatch(classify(qry), qdf, ldf, themes, qry, anthropic_key, openai_key, outcome)

(***************************************************************************)
(* Specification of classify as a pure function: any question of at most   *)
(* MaxQueryLen words over ClassifyWords, and the two questions of the      *)
(* documented scenario.                                                    *)
(***************************************************************************)
MaxQueryLen == 3

\* The variables a specification does not use keep these values.
NoRouter ==
    /\ cleaned_df = None /\ themes_df = None /\ quant_df = None /\ qual_df = None
    /\ _ANTHROPIC_KEY = FALSE /\ _OPENAI_KEY = FALSE
NoCall == result = None /\ exc = None /\ calls = <<>> /\ provider_end = None
NoClassify == qtype = None /\ quant_hits = 0 /\ qual_hits = 0
NoExtraction ==
    /\ texts = <<>> /\ requested = 0 /\ n_themes = 0 /\ km_n_clusters = 0
    /\ theme_id = <<>> /\ records = <<>>
NoHistory == answered = 0 /\ first_run = None /\ args = None /\ ret = None

ClassifyWords == {"how", "many", "total", "top", "themes", "why", "show", "me",
                  "examples", "trend", "complaints", "How"}

QHowManyTotal == <<"How", "many", "complaints", "are", "there", "in", "total">>
QWhyFrustrated == <<"Why", "are", "customers", "frustrated", "with", "the", "mobile", "app">>

ClassifyQueries == BoundedSeq(ClassifyWords, MaxQueryLen) \cup {QHowManyTotal, QWhyFrustrated}

InitClassify ==
    /\ query \in ClassifyQueries
    /\ qtype = None
    /\ quant_hits = 0
    /\ qual_hits = 0
    /\ pc = "classify"
    /\ NoRouter /\ NoCall /\ NoExtraction /\ NoHistory
    /\ user_input = <<>>

\* classify(query), called once on the question drawn by InitClassify.
Classify ==
    /\ pc = "classify"
    /\ pc' = "classified"
    /\ \E c \in {classification(query)} :
           /\ quant_hits' = c.quant_hits
           /\ qual_hits' = c.qual_hits
           /\ qtype' = c.qtype
    /\ UNCHANGED <<query, user_input, configVars, callVars, extractVars, historyVars, pureVars>>

NextClassify == Classify

SpecClassify == InitClassify /\ [][NextClassify]_vars

(***************************************************************************)
(* Specification of one Router.answer call: a Router built on any modelled *)
(* frame, theme table and key configuration, asked any modelled question.  *)
(***************************************************************************)
QByChannelCount == <<"how", "many", "complaints", "by", "channel">>

QTopThemes == <<"What", "are", "the", "top", "complaint", "themes">>

AskQueries == {
    <<>>,
    QByChannelCount,
    QTopThemes,
    QHowManyTotal,
    QWhyFrustrated,
    <<"complaints", "by", "channel">>,
    <<"how", "many", "themes">>,
    <<"top", "themes">>,
    <<"show", "themes">>,
    <<"monthly", "trend">>,
    <<"weekly", "trend">>,
    <<"by", "severity">>,
    <<"by", "product">>,
    <<"Total">>,
    <<"show", "overview">>,
    <<"why", "billing">>,
    <<"why", "crash">>,
    <<"describe", "issues">>,
    <<"why">>,
    <<"explain", "delays">>,
    <<"billing", "issues">> }

Init ==
    /\ cleaned_df \in Datasets
    /\ themes_df \in ThemeTables
    /\ quant_df = _prepare(cleaned_df)
    /\ qual_df = cleaned_df
    /\ _ANTHROPIC_KEY \in BOOLEAN
    /\ _OPENAI_KEY \in BOOLEAN
    /\ query \in AskQueries
    /\ pc = "call"
    /\ user_input = <<>>
    /\ NoClassify /\ NoCall /\ NoExtraction /\ NoHistory

\* A provider function is among the calls.
CalledProvider(cs) == \E i \in 1..Len(cs) : cs[i] \in {"_anthropic", "_openai"}

\* The ways the provider call of a question can end; a question that reaches
\* no provider has nothing to draw.
OutcomesOf(qtype_) ==
    IF qtype_ = "qual" /\ (_ANTHROPIC_KEY \/ _OPENAI_KEY) THEN ProviderOutcomes ELSE {"ok"}

\* router.answer(query)
RouterAnswer ==
    /\ pc = "call"
    /\ \E c \in {classification(query)} : \E outcome \in OutcomesOf(c.qtype) :
       \E r \in {dispatch(c.qtype, quant_df, qual_df, themes_df, query,
                          _ANTHROPIC_KEY, _OPENAI_KEY, outcome)} :
           /\ qtype' = c.qtype
           /\ quant_hits' = c.quant_hits
           /\ qual_hits' = c.qual_hits
           /\ result' = r.value
           /\ exc' = r.exc
           /\ calls' = r.calls
           /\ provider_end' = IF CalledProvider(r.calls) THEN outcome ELSE None
           /\ pc' = IF r.exc = None THEN "returned" ELSE "raised"
    /\ UNCHANGED <<configVars, query, user_input, extractVars, historyVars, pureVars>>

Next == RouterAnswer

Spec == Init /\ [][Next]_vars

(***************************************************************************)
(* Specification of main.py: _run_chat on a Router.  The loop's locals are *)
(* dead when input() is called again, and are reset there.                 *)
(***************************************************************************)
QuitCommands == {<<":quit">>, <<":exit">>, <<"quit">>, <<"exit">>}
HelpCommands == {<<":help">>, <<"help">>, <<":examples">>, <<"examples">>}
ModeCommand == <<":mode">>

\* input() raised EOFError or KeyboardInterrupt instead of returning a line.
EOFInput == <<"^D">>

ChatQuestions == AskQueries \ {<<>>}

\* llm_client.complete("ping", max_tokens=1): a prompt of one plain line.
Ping == [question |-> <<"ping">>, lines |-> << Plain("ping", 4) >>]

PingOutcomes == IF _ANTHROPIC_KEY \/ _OPENAI_KEY THEN ProviderOutcomes ELSE {"ok"}

AtPrompt ==
    /\ pc' = "prompt"
    /\ user_input' = <<>> /\ query' = <<>> /\ qtype' = None /\ quant_hits' = 0 /\ qual_hits' = 0
    /\ result' = None /\ exc' = None /\ calls' = <<>> /\ provider_end' = None

InitChat ==
    /\ cleaned_df \in Datasets
    /\ themes_df \in ThemeTables
    /\ quant_df = _prepare(cleaned_df)
    /\ qual_df = cleaned_df
    /\ _ANTHROPIC_KEY \in BOOLEAN
    /\ _OPENAI_KEY \in BOOLEAN
    /\ pc = "start"
    /\ user_input = <<>> /\ query = <<>>
    /\ NoClassify /\ NoCall /\ NoExtraction /\ NoHistory

\* Lines 130-141: the welcome text and the announcement of the LLM mode.
ChatStart ==
    /\ pc = "start"
    /\ \E outcome \in PingOutcomes :
           complete(Ping, _ANTHROPIC_KEY, _OPENAI_KEY, outcome).exc = None
    /\ AtPrompt
    /\ UNCHANGED <<configVars, extractVars, historyVars, pureVars>>

\* Lines 144-148: input() raises EOFError or KeyboardInterrupt.
ReadEOF ==
    /\ pc = "prompt"
    /\ user_input' = EOFInput
    /\ pc' = "done"
    /\ UNCHANGED <<configVars, query, classifyVars, callVars, extractVars, historyVars, pureVars>>

\* Lines 150-151: an empty line.
ReadEmpty ==
    /\ pc = "prompt"
    /\ AtPrompt
    /\ UNCHANGED <<configVars, extractVars, historyVars, pureVars>>

\* Lines 152-154: a quit command.
ReadQuit(line) ==
    /\ pc = "prompt"
    /\ line \in QuitCommands
    /\ user_input' = line
    /\ pc' = "done"
    /\ UNCHANGED <<configVars, query, classifyVars, callVars, extractVars, historyVars, pureVars>>

\* Lines 155-157: a help command.
ReadHelp(line) ==
    /\ pc = "prompt"
    /\ line \in HelpCommands
    /\ AtPrompt
    /\ UNCHANGED <<configVars, extractVars, historyVars, pureVars>>

\* Lines 158-161: the :mode command.
ReadMode ==
    /\ pc = "prompt"
    /\ \E outcome \in PingOutcomes :
           complete(Ping, _ANTHROPIC_KEY, _OPENAI_KEY, outcome).exc = None
    /\ AtPrompt
    /\ UNCHANGED <<configVars, extractVars, historyVars, pureVars>>

\* Line 163: result = router.answer(user_input); an exception it raises is
\* caught nowhere and leaves _run_chat.
Ask(line) ==
    /\ pc = "prompt"
    /\ line \notin QuitCommands \cup HelpCommands \cup {ModeCommand, <<>>}
    /\ user_input' = line
    /\ query' = line
    /\ \E c \in {classification(line)} : \E outcome \in OutcomesOf(c.qtype) :
       \E r \in {dispatch(c.qtype, quant_df, qual_df, themes_df, line,
                          _ANTHROPIC_KEY, _OPENAI_KEY, outcome)} :
           /\ qtype' = c.qtype
           /\ quant_hits' = c.quant_hits
           /\ qual_hits' = c.qual_hits
           /\ result' = r.value
           /\ exc' = r.exc
           /\ calls' = r.calls
           /\ provider_end' = IF CalledProvider(r.calls) THEN outcome ELSE None
           /\ pc' = IF r.exc = None THEN "print" ELSE "crashed"
    /\ UNCHANGED <<configVars, extractVars, historyVars, pureVars>>

\* Line 164: print(_fmt(result)), and the loop goes round.
PrintResult ==
    /\ pc = "print"
    /\ AtPrompt
    /\ UNCHANGED <<configVars, extractVars, historyVars, pureVars>>

NextChat ==
    \/ ChatStart
    \/ ReadEOF
    \/ ReadEmpty
    \/ \E line \in QuitCommands : ReadQuit(line)
    \/ \E line \in HelpCommands : ReadHelp(line)
    \/ ReadMode
    \/ \E line \in ChatQuestions : Ask(line)
    \/ PrintResult

SpecChat == InitChat /\ [][NextChat]_vars


(***************************************************************************)
(* Specification of a Router's lifetime: it is built on the caller's frame *)
(* and theme table and then answers up to MaxAnswered questions, one after *)
(* the other.  The locals of a finished call are dead before the next.     *)
(* The frames are those with every column and those without a date column *)
(* (the column _prepare derives columns from).                             *)
(***************************************************************************)
MaxAnswered == 2

SessionDatasets == {d \in Datasets : d.cols \in {AllCols, AllCols \ {"date"}}}

\* Questions for every sub-query of the Quantitative Handler that reads the
\* frame, and for the retrieval with and without a named theme.
SessionQueries == {
    QByChannelCount,
    <<"top", "themes">>,
    <<"complaints", "by", "channel">>,
    <<"weekly", "trend">>,
    <<"by", "severity">>,
    <<"show", "overview">>,
    <<"why", "billing">>,
    <<"explain", "delays">>,
    <<"billing", "issues">> }

\* Router.__init__ with handlers that keep the caller's frame itself, not a
\* copy: _prepare then adds its columns to the caller's frame.
RouterFrames_no_copy(cdf, tdf) ==
    [cleaned_df |-> _prepare(cdf), themes_df |-> tdf,
     quant_df |-> _prepare(cdf), qual_df |-> _prepare(cdf)]

\* Router.__init__: QuantHandler and QualHandler each copy the frame and the
\* table; QuantHandler runs _prepare on its copy.
RouterFrames(cdf, tdf) ==
    [cleaned_df |-> cdf, themes_df |-> tdf, quant_df |-> _prepare(cdf), qual_df |-> cdf]

InitSession ==
    /\ cleaned_df \in SessionDatasets
    /\ themes_df \in ThemeTables
    /\ quant_df = None /\ qual_df = None
    /\ _ANTHROPIC_KEY \in BOOLEAN
    /\ _OPENAI_KEY \in BOOLEAN
    /\ pc = "new"
    /\ user_input = <<>> /\ query = <<>>
    /\ NoClassify /\ NoCall /\ NoExtraction /\ NoHistory

\* router = Router(cleaned_df, themes_df)
RouterInit ==
    /\ pc = "new"
    /\ \E f \in {RouterFrames(cleaned_df, themes_df)} :
           /\ cleaned_df' = f.cleaned_df
           /\ themes_df' = f.themes_df
           /\ quant_df' = f.quant_df
           /\ qual_df' = f.qual_df
    /\ pc' = "idle"
    /\ UNCHANGED <<_ANTHROPIC_KEY, _OPENAI_KEY, user_input, query, classifyVars, callVars,
                   extractVars, historyVars, pureVars>>

\* router.answer(q) on the Router built before.
SessionAnswer(q) ==
    /\ pc = "idle"
    /\ answered < MaxAnswered
    /\ query' = q
    /\ \E c \in {classification(q)} : \E outcome \in OutcomesOf(c.qtype) :
       \E r \in {dispatch(c.qtype, quant_df, qual_df, themes_df, q,
                          _ANTHROPIC_KEY, _OPENAI_KEY, outcome)} :
           /\ qtype' = c.qtype
           /\ quant_hits' = c.quant_hits
           /\ qual_hits' = c.qual_hits
           /\ result' = r.value
           /\ exc' = r.exc
           /\ calls' = r.calls
           /\ provider_end' = IF CalledProvider(r.calls) THEN outcome ELSE None
           /\ pc' = IF r.exc = None THEN "returned" ELSE "raised"
    /\ answered' = answered + 1
    /\ UNCHANGED <<configVars, user_input, extractVars, first_run, pureVars>>

\* The call is over: the caller has the result or the exception, and the
\* Router is ready for the next question.
SessionNext ==
    /\ pc \in {"returned", "raised"}
    /\ pc' = "idle"
    /\ query' = <<>> /\ qtype' = None /\ quant_hits' = 0 /\ qual_hits' = 0
    /\ result' = None /\ exc' = None /\ calls' = <<>> /\ provider_end' = None
    /\ UNCHANGED <<configVars, user_input, extractVars, historyVars, pureVars>>

NextSession ==
    \/ RouterInit
    \/ \E q \in SessionQueries : SessionAnswer(q)
    \/ SessionNext

SpecSession == InitSession /\ [][NextSession]_vars

(***************************************************************************)
(* theme_extractor.py: extract_themes.  A document is the set of its       *)
(* words; a bigram occurs in no more documents than its words do, so the   *)
(* vocabulary is empty exactly when its unigram part is.                   *)
(***************************************************************************)
\* The stop words among the modelled document words.
_STOPWORDS == {"please", "told", "would", "the", "and"}

\* TfidfVectorizer(min_df=2)
min_df == 2

\* TfidfVectorizer.fit_transform: the vocabulary, the terms outside the stop
\* words that occur in at least min_df documents.
Vocabulary(docs) ==
    {t \in UNION {docs[i] : i \in 1..Len(docs)} :
        /\ t \notin _STOPWORDS
        /\ Cardinality({i \in 1..Len(docs) : t \in docs[i]}) >= min_df}

\* Lines 109-110 without the reduction of n_themes.
effective_n_themes_unreduced(n_docs, k) == k

\* Lines 109-110 with N // 2 taken as it is.
effective_n_themes_half(n_docs, k) ==
    IF n_docs < k THEN n_docs \div 2 ELSE k

\* Lines 109-110: n_themes after the check against the number of documents.
effective_n_themes(n_docs, k) ==
    IF n_docs < k THEN Max({2, n_docs \div 2}) ELSE k

\* KMeans.fit_predict: a label in 0..k-1 for every document, the same for
\* documents with the same vector; every such labelling is allowed for.
Labellings(docs, k) ==
    {[i \in 1..Len(docs) |-> f[docs[i]]] :
        f \in [{docs[i] : i \in 1..Len(docs)} -> 0..(k - 1)]}

\* DataFrame.sort_values("count", ascending=False): the positions of recs by
\* falling count, equal counts in their order in recs.
RECURSIVE SortedByCount(_, _)
SortedByCount(recs, left) ==
    IF left = {} THEN <<>>
    ELSE LET top == {i \in left : \A j \in left : recs[j].count <= recs[i].count}
         IN  <<recs[Min(top)]>> \o SortedByCount(recs, left \ {Min(top)})

\* Lines 133-149, the record of cluster c: its id, the number of documents
\* labelled c, the first three of them (by position) and the keywords read
\* from row c of cluster_centers_ (the label is computed from the keywords).
ThemeRecord(docs, labels, c) ==
    [theme_id |-> c,
     count |-> Cardinality({i \in 1..Len(docs) : labels[i] = c}),
     example_texts |-> Head_n(SeqOf({i \in 1..Len(docs) : labels[i] = c}), 3),
     top_keywords |-> [centroid |-> c]]

\* The records with count taken from the examples kept, at most three.
ThemeRecords_count_examples(docs, labels, k) ==
    LET recs == [j \in 1..k |->
                    [ThemeRecord(docs, labels, j - 1) EXCEPT
                        !.count = Len(ThemeRecord(docs, labels, j - 1).example_texts)]]
    IN  SortedByCount(recs, 1..k)

\* The records numbered again by their position after the sort.
ThemeRecords_renumbered(docs, labels, k) ==
    LET recs == [j \in 1..k |-> ThemeRecord(docs, labels, j - 1)]
        sorted == SortedByCount(recs, 1..k)
    IN  [j \in 1..k |-> [sorted[j] EXCEPT !.theme_id = j - 1]]

\* Lines 133-155: one record per cluster id in range(n_themes), sorted.
ThemeRecords(docs, labels, k) ==
    LET recs == [j \in 1..k |-> ThemeRecord(docs, labels, j - 1)]
    IN  SortedByCount(recs, 1..k)

\* KMeans(random_state=None).fit_predict on the input of an earlier run:
\* any labelling again.
fit_predict_again_unseeded(docs, k, earlier) == Labellings(docs, k)

\* KMeans(random_state=seed).fit_predict on the matrix, cluster count and
\* seed of an earlier run: the labelling that run returned.
fit_predict_again(docs, k, earlier) == {earlier}

MaxDocs == 6
MaxThemes == 7

DocValues == {{"app", "crash"}, {"please"}}

InitExtract ==
    /\ texts \in BoundedSeq(DocValues, MaxDocs)
    /\ requested \in 1..MaxThemes
    /\ n_themes = requested
    /\ km_n_clusters = 0 /\ theme_id = <<>> /\ records = <<>>
    /\ pc = "extract"
    /\ user_input = <<>> /\ query = <<>>
    /\ NoRouter /\ NoClassify /\ NoCall /\ NoHistory

\* extract_themes.  fit_transform raises ValueError when no term is left in
\* the vocabulary, before KMeans is built; KMeans.fit_predict raises
\* ValueError for more clusters than samples.
ExtractThemes ==
    /\ pc = "extract"
    /\ n_themes' = effective_n_themes(Len(texts), n_themes)
    /\ IF Vocabulary(texts) = {}
       THEN /\ exc' = "ValueError"
            /\ pc' = "raised"
            /\ UNCHANGED <<km_n_clusters, theme_id, records>>
       ELSE /\ km_n_clusters' = n_themes'
            /\ IF Len(texts) < n_themes'
               THEN /\ exc' = "ValueError"
                    /\ pc' = "raised"
                    /\ UNCHANGED <<theme_id, records>>
               ELSE /\ \E labels \in Labellings(texts, n_themes') :
                           /\ theme_id' = labels
                           /\ records' = ThemeRecords(texts, labels, n_themes')
                    /\ pc' = "extracted"
                    /\ UNCHANGED exc
    /\ UNCHANGED <<configVars, user_input, query, classifyVars, result, calls, provider_end,
                   texts, requested, historyVars, pureVars>>

NextExtract == ExtractThemes

SpecExtract == InitExtract /\ [][NextExtract]_vars

\* extract_themes called once more on the same frame, which now has the
\* theme_id column of the first call, with the same n_themes and seed.  The
\* first call did not raise, so neither does fit_transform nor KMeans here.
ExtractAgain ==
    /\ pc = "extracted"
    /\ first_run = None
    /\ first_run' = [theme_id |-> theme_id, records |-> records, n_themes |-> n_themes]
    /\ n_themes' = effective_n_themes(Len(texts), requested)
    /\ km_n_clusters' = n_themes'
    /\ \E labels \in fit_predict_again(texts, n_themes', theme_id) :
           /\ theme_id' = labels
           /\ records' = ThemeRecords(texts, labels, n_themes')
    /\ pc' = "extracted_again"
    /\ UNCHANGED <<configVars, user_input, query, classifyVars, callVars,
                   texts, requested, answered, pureVars>>

NextRerun ==
    \/ ExtractThemes
    \/ ExtractAgain

SpecRerun == InitExtract /\ [][NextRerun]_vars

(***************************************************************************)
(* theme_extractor.py: _auto_label.  A keyword list is a sequence of terms *)
(* without repetition, in falling order of weight; a label is the sequence *)
(* of its words.                                                           *)
(***************************************************************************)
\* _LABEL_RULES, lines 46-61
_LABEL_RULES == <<
    [keywords |-> {"app", "mobile", "login", "crash", "password", "screen", "error",
                   "loading", "authentication", "fingerprint", "face", "update", "ios",
                   "android"},
     label |-> <<"App", "&", "Login", "Issues">>],
    [keywords |-> {"charge", "fee", "charged", "overdraft", "statement", "billing",
                   "refund", "maintenance", "annual", "late", "penalty",
                   "balance transfer"},
     label |-> <<"Billing", "&", "Fee", "Disputes">>],
    [keywords |-> {"transaction", "payment", "declined", "transfer", "unauthorized",
                   "fraud", "purchase", "debit", "atm", "withdrawal", "deposit", "wire"},
     label |-> <<"Transaction", "Problems">>],
    [keywords |-> {"account", "locked", "access", "blocked", "frozen", "verification",
                   "reset", "security", "flag", "suspended", "recover"},
     label |-> <<"Account", "Access", "Issues">>],
    [keywords |-> {"service", "representative", "staff", "wait", "hold", "support",
                   "agent", "call", "phone", "transferred", "rude", "unhelpful",
                   "callback"},
     label |-> <<"Customer", "Service", "Quality">>],
    [keywords |-> {"loan", "mortgage", "interest", "rate", "application", "approval",
                   "personal", "refinance", "payoff", "equity"},
     label |-> <<"Loan", "&", "Mortgage", "Issues">>],
    [keywords |-> {"card", "chip", "tap", "contactless", "apple", "google", "pay", "pin",
                   "credit", "limit"},
     label |-> <<"Card", "&", "Payment", "Method", "Issues">>] >>

\* The modelled terms that are in no rule, and the terms that are in one:
\* "fee" in the second rule, "loan" in the sixth, "card" in the seventh.
PlainTerms == <<"branch", "zelle", "website", "online", "customer", "bank", "money",
                "manager", "letter", "notice">>
RuleTerms == <<"card", "loan", "fee">>

\* str.title() on the modelled terms.
Title(w) ==
    CASE w = "branch" -> "Branch"     [] w = "zelle" -> "Zelle"
      [] w = "website" -> "Website"   [] w = "online" -> "Online"
      [] w = "customer" -> "Customer" [] w = "bank" -> "Bank"
      [] w = "money" -> "Money"       [] w = "manager" -> "Manager"
      [] w = "letter" -> "Letter"     [] w = "notice" -> "Notice"
      [] w = "card" -> "Card"         [] w = "loan" -> "Loan"
      [] w = "fee" -> "Fee"

\* " & ".join(...) of a list of words, as the words of the joined text.
RECURSIVE JoinAmp(_)
JoinAmp(ws) ==
    IF Len(ws) = 0 THEN <<>>
    ELSE IF Len(ws) = 1 THEN ws
    ELSE <<Head(ws), "&">> \o JoinAmp(Tail(ws))

\* _auto_label looking at every keyword, not the first 8.
_auto_label_all_keywords(top_keywords) ==
    LET kw_set == {top_keywords[i] : i \in 1..Len(top_keywords)}
        hit == {r \in 1..Len(_LABEL_RULES) : kw_set \cap _LABEL_RULES[r].keywords # {}}
        first_two == Head_n(top_keywords, 2)
    IN  IF hit # {} THEN _LABEL_RULES[Min(hit)].label
        ELSE JoinAmp([i \in 1..Len(first_two) |-> Title(first_two[i])])

\* _auto_label, lines 64-71
_auto_label(top_keywords) ==
    LET top8 == Head_n(top_keywords, 8)
        kw_set == {top8[i] : i \in 1..Len(top8)}
        hit == {r \in 1..Len(_LABEL_RULES) : kw_set \cap _LABEL_RULES[r].keywords # {}}
        first_two == Head_n(top_keywords, 2)
    IN  IF hit # {} THEN _LABEL_RULES[Min(hit)].label
        ELSE JoinAmp([i \in 1..Len(first_two) |-> Title(first_two[i])])

(***************************************************************************)
(* Specification of _auto_label as a pure function: keyword lists of up to *)
(* MaxKeywords terms, plain terms in one of two orders with each rule term *)
(* absent or put at a position of its own.                                 *)
(***************************************************************************)
MaxKeywords == 9

\* The list of length n that has the rule term RuleTerms[j] at position
\* at[j] (0: absent) and plain terms, from the offset `from`, elsewhere.
KeywordList(n, at, from) ==
    [i \in 1..n |->
        IF \E j \in 1..Len(RuleTerms) : at[j] = i
        THEN RuleTerms[CHOOSE j \in 1..Len(RuleTerms) : at[j] = i]
        ELSE PlainTerms[((i + from - 1) % Len(PlainTerms)) + 1]]

KeywordLists ==
    {KeywordList(n, at, from) :
        n \in 0..MaxKeywords, from \in {0, 1},
        at \in {a \in [1..Len(RuleTerms) -> 0..MaxKeywords] :
                   \A j, k \in 1..Len(RuleTerms) : (j # k /\ a[j] # 0) => a[j] # a[k]}}

InitLabel ==
    /\ args \in KeywordLists
    /\ ret = None
    /\ pc = "label"
    /\ user_input = <<>> /\ query = <<>>
    /\ NoRouter /\ NoClassify /\ NoCall /\ NoExtraction
    /\ answered = 0 /\ first_run = None

\* label = _auto_label(top_kw)
AutoLabel ==
    /\ pc = "label"
    /\ ret' = _auto_label(args)
    /\ pc' = "labelled"
    /\ UNCHANGED <<configVars, user_input, query, classifyVars, callVars, extractVars,
                   historyVars, args>>

SpecLabel == InitLabel /\ [][AutoLabel]_vars

(***************************************************************************)
(* theme_extractor.py, lines 129-135: the keywords of a cluster.  A row of *)
(* cluster_centers_ gives every feature a weight; weights are modelled by  *)
(* small integers.  The order argsort gives to features of equal weight is *)
(* not fixed by its contract: every such order is allowed for.             *)
(***************************************************************************)
\* vectorizer.get_feature_names_out(): the vocabulary, in index order.
feature_names == <<"card", "fee", "loan", "zelle">>

MaxWeight == 2
MaxTopKeywords == 3

\* The orders of the feature indices in which the weights of row never fall.
argsort(row) ==
    {o \in [1..Len(row) -> 1..Len(row)] :
        /\ \A i, j \in 1..Len(row) : i # j => o[i] # o[j]
        /\ \A i \in 1..(Len(row) - 1) : row[o[i]] <= row[o[i + 1]]}

\* The keywords read from argsort() as it is, without [:, ::-1].
top_kw_unreversed(row, n_top_keywords) ==
    {[i \in 1..Min({n_top_keywords, Len(row)}) |-> feature_names[o[i]]] : o \in argsort(row)}

\* Lines 131 and 135: argsort()[::-1], its first n_top_keywords indices, and
\* the feature names at them.
top_kw(row, n_top_keywords) ==
    {[i \in 1..Min({n_top_keywords, Len(row)}) |-> feature_names[o[Len(row) + 1 - i]]] :
        o \in argsort(row)}

InitKeywords ==
    /\ args \in [centroid : [1..Len(feature_names) -> 0..MaxWeight],
                 n_top_keywords : 1..MaxTopKeywords]
    /\ ret = None
    /\ pc = "keywords"
    /\ user_input = <<>> /\ query = <<>>
    /\ NoRouter /\ NoClassify /\ NoCall /\ NoExtraction
    /\ answered = 0 /\ first_run = None

\* top_kw = [feature_names[idx] for idx in order_centroids[i, :n_top_keywords]]
TopKeywords ==
    /\ pc = "keywords"
    /\ ret' \in top_kw(args.centroid, args.n_top_keywords)
    /\ pc' = "listed"
    /\ UNCHANGED <<configVars, user_input, query, classifyVars, callVars, extractVars,
                   historyVars, args>>

SpecKeywords == InitKeywords /\ [][TopKeywords]_vars

(***************************************************************************)
(* llm_client.complete with no key configured, over prompts of a few lines *)
(***************************************************************************)
MaxLines == 5

\* Lines a prompt is drawn from: bullets with and without quotes, indented,
\* of 15, 16, 20 and 130 characters, a plain line and an empty one.
PromptLines ==
    { << Ch("-"), Ch(" "), Ch("\""), Run([id |-> "late fee", len |-> 20]), Ch("\"") >>,
      << Ch("\""), Run([id |-> "long wait", len |-> 130]), Ch("\"") >>,
      << Ch("-"), Ch(" "), Run([id |-> "fifteen", len |-> 15]) >>,
      << Ch(" "), Ch(" "), Ch("-"), Run([id |-> "sixteen", len |-> 16]), Ch(" ") >>,
      << Ch("-"), Ch("-"), Ch("\""), Ch("-"), Run([id |-> "minus", len |-> 15]), Ch("\"") >>,
      Plain("Question: ", 30),
      <<>> }

InitNoKey ==
    /\ args \in BoundedSeq(PromptLines, MaxLines)
    /\ ret = None
    /\ pc = "complete"
    /\ user_input = <<>> /\ query = <<>>
    /\ NoRouter /\ NoClassify /\ NoCall /\ NoExtraction
    /\ answered = 0 /\ first_run = None

\* complete(prompt) with neither key set, whatever a provider would have done.
CompleteNoKey ==
    /\ pc = "complete"
    /\ \E outcome \in ProviderOutcomes :
         \E r \in {complete([question |-> <<>>, lines |-> args],
                            _ANTHROPIC_KEY, _OPENAI_KEY, outcome)} :
            /\ ret' = r.value
            /\ calls' = r.calls
    /\ pc' = "completed"
    /\ UNCHANGED <<configVars, user_input, query, classifyVars, result, exc, provider_end,
                   extractVars, historyVars, args>>

SpecNoKey == InitNoKey /\ [][CompleteNoKey]_vars

(***************************************************************************)
(* QualHandler.handle on frames long enough for the limits on the examples *)
(***************************************************************************)
MaxFrameRows == 10

\* Frames of up to MaxFrameRows rows that repeat a short cycle of rows.
RowCycles == {<<RowA>>, <<RowC>>, <<RowA, RowB>>, <<RowA, RowC, RowB>>, <<RowB, RowB, RowA>>}

LongDatasets ==
    {[cols |-> cs, rows |-> [i \in 1..n |-> cyc[((i - 1) % Len(cyc)) + 1]]] :
        cs \in {AllCols, AllCols \ {"complaint_text"}}, n \in 0..MaxFrameRows,
        cyc \in RowCycles}

ExampleQueries == {QWhyFrustrated, <<"billing", "issues">>, <<"explain", "delays">>,
                   <<"login", "crash", "examples">>}

InitExamples ==
    /\ cleaned_df \in LongDatasets
    /\ themes_df \in ThemeTables
    /\ quant_df = None
    /\ qual_df = cleaned_df
    /\ _ANTHROPIC_KEY \in BOOLEAN
    /\ _OPENAI_KEY = FALSE
    /\ query \in ExampleQueries
    /\ pc = "call"
    /\ user_input = <<>>
    /\ NoClassify /\ NoCall /\ NoExtraction /\ NoHistory

\* QualHandler.handle(query); ret holds the examples _retrieve returned and
\* args the prompts _summarise gave to complete.
QualAnswer ==
    /\ pc = "call"
    /\ \E outcome \in OutcomesOf("qual") :
       \E e \in {_retrieve(qual_df, themes_df, query)} :
       \E r \in {QualHandle(qual_df, themes_df, query, _ANTHROPIC_KEY, _OPENAI_KEY, outcome)} :
           /\ qtype' = "qual"
           /\ result' = r.value
           /\ exc' = r.exc
           /\ calls' = r.calls
           /\ provider_end' = IF CalledProvider(r.calls) THEN outcome ELSE None
           /\ ret' = IF e.exc = None THEN e.value[1] ELSE <<>>
           /\ args' = IF e.exc = None /\ Len(e.value[1]) > 0
                      THEN << PromptOf(query, e.value[1]) >> ELSE <<>>
           /\ pc' = IF r.exc = None THEN "returned" ELSE "raised"
    /\ UNCHANGED <<configVars, query, user_input, quant_hits, qual_hits, extractVars,
                   historyVars>>

SpecExamples == InitExamples /\ [][QualAnswer]_vars

(***************************************************************************)
(* cleaner.py.  A text is a sequence of pieces (as in llm_client above):   *)
(* runs of word characters in lower case ("txt") or with capitals ("TXT"), *)
(* white space (" "), characters _RE_SPECIAL removes ("#"), a URL and an   *)
(* e-mail address, each of a given length.  A raw row has its index label, *)
(* its text cell (missing, or a str value) and one other cell.             *)
(***************************************************************************)
Piece(ch, n, id) == [ch |-> ch, id |-> id, len |-> n]

\* _RE_WHITESPACE.sub(" ", text): every run of white space becomes one space.
RECURSIVE collapse(_)
collapse(s) ==
    IF s = <<>> THEN <<>>
    ELSE IF s[1].ch = " "
    THEN <<Piece(" ", 1, "")>> \o collapse(lstrip(s, {" "}))
    ELSE <<s[1]>> \o collapse(Tail(s))

\* cleaner.normalize_text, for a str
normalize_text(text) ==
    LET lowered == [i \in 1..Len(text) |->
                       IF text[i].ch = "TXT" THEN [text[i] EXCEPT !.ch = "txt"] ELSE text[i]]
        blanked == [i \in 1..Len(text) |->
                       IF lowered[i].ch \in {"url", "email", "#"}
                       THEN Piece(" ", lowered[i].len, "") ELSE lowered[i]]
    IN  strip(collapse(blanked), {" "})

\* The text cells of the modelled frames: blank, special characters only, 9
\* and 10 characters, and a longer text with a URL in it.
TextCells ==
    { << Piece(" ", 3, "") >>,
      << Piece("#", 4, "") >>,
      << Piece("TXT", 9, "Late fee.") >>,
      << Piece("txt", 10, "app crash!") >>,
      << Piece("TXT", 8, "See here"), Piece(" ", 1, ""), Piece("url", 20, ""),
         Piece(" ", 2, ""), Piece("txt", 6, "my fee") >> }

MaxCleanRows == 4

\* Raw frames: a default RangeIndex, and rows with a missing or present text
\* and a missing or present other cell.
RawFrames ==
    LET cells == {[text |-> [isna |-> TRUE, value |-> <<>>], other |-> o] : o \in {Null, "phone"}}
                     \cup {[text |-> [isna |-> FALSE, value |-> t], other |-> "phone"] :
                              t \in TextCells}
    IN  {[i \in 1..Len(f) |-> [index |-> i - 1, text |-> f[i].text, other |-> f[i].other]] :
            f \in BoundedSeq(cells, MaxCleanRows)}

\* df.reset_index(drop=True)
reset_index(rows) == [i \in 1..Len(rows) |-> [rows[i] EXCEPT !.index = i - 1]]

\* The metrics with rows_out taken before the too-short texts are dropped.
metrics_of_early_rows_out(rows_in, s1, s2, s3, s5, drop_duplicates) ==
    [rows_in |-> rows_in,
     dropped_all_null_rows |-> rows_in - s1,
     dropped_null_text |-> s1 - s2,
     dropped_duplicates |-> IF drop_duplicates THEN s2 - s3 ELSE 0,
     dropped_short_text |-> s3 - s5,
     rows_out |-> s3]

\* clean, lines 129-163: the metrics, from the frame's length after each step.
metrics_of(rows_in, s1, s2, s3, s5, drop_duplicates) ==
    [rows_in |-> rows_in,
     dropped_all_null_rows |-> rows_in - s1,
     dropped_null_text |-> s1 - s2,
     dropped_duplicates |-> IF drop_duplicates THEN s2 - s3 ELSE 0,
     dropped_short_text |-> s3 - s5,
     rows_out |-> s5]

\* cleaner.clean(df, text_col, drop_duplicates=..., min_text_length=...), with
\* text_col naming the text cell.
clean(df, drop_duplicates, min_text_length) ==
    LET NotAllNull(r) == ~r.text.isna \/ r.other # Null
        step1 == SelectSeq(df, NotAllNull)
        HasText(r) == ~r.text.isna /\ strip(r.text.value, {" "}) # <<>>
        step2 == SelectSeq(step1, HasText)
        firsts == {i \in 1..Len(step2) : \A j \in 1..(i - 1) : step2[j].text # step2[i].text}
        step3 == IF drop_duplicates THEN [k \in 1..Cardinality(firsts) |-> step2[SeqOf(firsts)[k]]]
                 ELSE step2
        step4 == [i \in 1..Len(step3) |->
                     [index |-> step3[i].index, text |-> step3[i].text,
                      other |-> step3[i].other, text_clean |-> normalize_text(step3[i].text.value)]]
        LongEnough(r) == len(r.text_clean) >= min_text_length
        step5 == SelectSeq(step4, LongEnough)
    IN  << reset_index(step5),
           metrics_of(Len(df), Len(step1), Len(step2), Len(step3), Len(step5), drop_duplicates) >>

InitClean ==
    /\ args \in [df : RawFrames, drop_duplicates : BOOLEAN, min_text_length : {0, 10}]
    /\ ret = None
    /\ pc = "clean"
    /\ user_input = <<>> /\ query = <<>>
    /\ NoRouter /\ NoClassify /\ NoCall /\ NoExtraction
    /\ answered = 0 /\ first_run = None

Clean ==
    /\ pc = "clean"
    /\ ret' = clean(args.df, args.drop_duplicates, args.min_text_length)
    /\ pc' = "cleaned"
    /\ UNCHANGED <<configVars, user_input, query, classifyVars, callVars, extractVars,
                   historyVars, args>>

SpecClean == InitClean /\ [][Clean]_vars

(***************************************************************************)
(* Properties of classify (SpecClassify)                                   *)
(***************************************************************************)
\* The number of patterns of the list that match somewhere in the question.
DistinctHits(patterns, toks) ==
    Cardinality({k \in 1..Len(patterns) :
                    \E i \in 1..Len(toks) : PatternMatchLen(patterns[k], toks, i) > 0})

\* C4: the hit count of each pattern list is the number of distinct patterns
\* of the list that match the question (a repeated pattern counts once, every
\* matching pattern counts, overlapping or not).
C4_HitsAreDistinctPatterns ==
    pc = "classified" =>
        /\ quant_hits = DistinctHits(_QUANT_PATTERNS, query)
        /\ qual_hits = DistinctHits(_QUAL_PATTERNS, query)

Finished == pc \in {"returned", "raised"}

\* C1: on a frame without a channel column, "how many complaints by channel"
\* is classified quant and answered with a statement that the channel column
\* was not found, with data == {} and without an exception.
C1_ChannelNotFound ==
    (Finished /\ query = QByChannelCount /\ "channel" \notin cleaned_df.cols) =>
        /\ qtype = "quant"
        /\ exc = None
        /\ result.answer.template = "no_channel_column"
        /\ result.data = <<>>

\* C2: Router.answer returns a dict with an answer and a query_type for every
\* question, frame and theme table, and never raises.
C2_AnswerNeverRaises ==
    Finished =>
        /\ exc = None
        /\ {"answer", "query_type"} \subseteq DOMAIN result

\* The handlers among the calls of the last answer.
HandlersCalled == SelectSeq(calls, LAMBDA c : c \in {"quant.handle", "qual.handle"})

\* C6: Router.answer invokes exactly one handler, the one classify's result
\* selects, and a returned dict carries the tag of the handler that built it.
C6_OneHandlerTagAgrees ==
    Finished =>
        /\ HandlersCalled = << IF qtype = "quant" THEN "quant.handle" ELSE "qual.handle" >>
        /\ pc = "returned" =>
              /\ result.query_type =
                    (IF qtype = "quant" THEN "quantitative" ELSE "qualitative")
              /\ result.query_type = "quantitative" <=> "data" \in DOMAIN result
              /\ result.query_type = "qualitative" <=> "llm_mode" \in DOMAIN result

\* A question classified qual whose answer the retrieval handler returned.
C6_Witness ==
    /\ pc = "returned" /\ qtype = "qual" /\ calls[1] = "qual.handle"
    /\ result.query_type = "qualitative"

\* C9: no period entry of a trend answer counts a row whose date cannot be
\* parsed, and such rows do not make the query fail.
C9_UnparsableDatesExcluded ==
    (Finished /\ qtype = "quant" /\ search(TrendPatterns, LowerAll(query))
        /\ ~search(CountPatterns, LowerAll(query))
        /\ ~search(ThemePatterns, LowerAll(query))
        /\ ~search(ChannelPatterns, LowerAll(query))
        /\ "date" \in cleaned_df.cols) =>
        /\ exc = None
        /\ \A e \in result.data :
              e.count = Cardinality({i \in RowIdx(cleaned_df) :
                            /\ to_datetime(cleaned_df.rows[i]["date"]) # NaT
                            /\ e.period \in
                                  {Calendar.month[cleaned_df.rows[i]["date"]],
                                   Calendar.week[cleaned_df.rows[i]["date"]]}})

\* C10: a provider call that fails does not raise out of complete(): the
\* answer is the bracketed error text with the provider's own error tag and
\* the qualitative query returns a normal result.
C10_ProviderFailureIsInline ==
    (Finished /\ provider_end \in Failures) =>
        /\ pc = "returned" /\ exc = None
        /\ result.answer.kind = "bracketed_error"
        /\ result.answer.error = provider_end
        /\ \/ /\ calls = <<"qual.handle", "complete", "_anthropic">>
              /\ result.answer.of = "Anthropic" /\ result.llm_mode = "anthropic-error"
           \/ /\ calls = <<"qual.handle", "complete", "_openai">>
              /\ result.answer.of = "OpenAI" /\ result.llm_mode = "openai-error"
        /\ result.query_type = "qualitative"
        /\ DOMAIN result = {"answer", "examples", "confidence", "llm_mode", "query_type"}

\* The OpenAI call failed with an API error and the query returned.
C10_Witness ==
    /\ pc = "returned" /\ provider_end = "APIError"
    /\ calls = <<"qual.handle", "complete", "_openai">>
    /\ result.llm_mode = "openai-error"

(***************************************************************************)
(* Properties of _run_chat (SpecChat)                                      *)
(***************************************************************************)
\* C3: the chat session ends only on a quit command or on EOF / keyboard
\* interrupt; no other input ends it.
C3_OnlyQuitEndsSession ==
    pc \in {"done", "crashed"} => user_input \in QuitCommands \cup {EOFInput}

(***************************************************************************)
(* Properties of extract_themes (SpecExtract)                              *)
(***************************************************************************)
\* C7: KMeans is never built with more clusters than there are documents.
C7_ClustersAtMostDocuments ==
    km_n_clusters # 0 => km_n_clusters <= Len(texts)

\* Fewer documents than requested themes, and KMeans was built.
C7_Witness ==
    /\ pc = "extracted" /\ Len(texts) = 2 /\ requested = 5
    /\ km_n_clusters = 2 /\ Len(records) = 2

\* C8: with N documents and K requested themes, the cluster count and the
\* number of theme records are max(2, N // 2) when N < K, and K otherwise.
C8_EffectiveK ==
    pc = "extracted" =>
        LET n == Len(texts)
            half == CHOOSE h \in 0..n : 2 * h = n \/ 2 * h + 1 = n
            want == IF n < requested THEN (IF half > 2 THEN half ELSE 2)
                    ELSE requested
        IN  km_n_clusters = want /\ Len(records) = want /\ n_themes = want

\* Six documents and seven requested themes: three clusters, three records.
C8_Witness ==
    /\ pc = "extracted" /\ Len(texts) = 6 /\ requested = 7
    /\ km_n_clusters = 3 /\ Len(records) = 3

\* The calls of the last answer that are in the set fs, in call order.
CallsTo(fs) == SelectSeq(calls, LAMBDA c : c \in fs)

\* C11: a qualitative query calls complete() at most once, and complete()
\* calls exactly one of _anthropic, _openai and _no_key, once: the provider
\* whose key is set (Anthropic first).  A provider that fails is the last
\* call of the query, and its error is what the query returns.
C11_OneCompletionAttempt ==
    (Finished /\ qtype = "qual") =>
        /\ Len(CallsTo({"complete"})) <= 1
        /\ Len(CallsTo({"_anthropic", "_openai", "_no_key"})) = Len(CallsTo({"complete"}))
        /\ CallsTo({"complete"}) # <<>> =>
              CallsTo({"_anthropic", "_openai", "_no_key"}) =
                  << IF _ANTHROPIC_KEY THEN "_anthropic"
                     ELSE IF _OPENAI_KEY THEN "_openai" ELSE "_no_key" >>
        /\ provider_end \in Failures =>
              /\ calls[Len(calls)] \in {"_anthropic", "_openai"}
              /\ pc = "returned"
              /\ result.answer.kind = "bracketed_error"
              /\ result.llm_mode \in {"anthropic-error", "openai-error"}

\* Both keys are set and the Anthropic call failed: OpenAI was not tried.
C11_Witness ==
    /\ pc = "returned" /\ _ANTHROPIC_KEY /\ _OPENAI_KEY
    /\ provider_end = "APIError"
    /\ calls = <<"qual.handle", "complete", "_anthropic">>
    /\ result.llm_mode = "anthropic-error"

\* C12: a qualitative query whose retrieval gave no example returns the fixed
\* "No relevant complaints found for this query." answer, and neither
\* complete() nor a provider is called for it.
C12_NoExamplesNoCompletion ==
    (pc = "returned" /\ qtype = "qual" /\ result.confidence.showing = 0) =>
        /\ result.answer = [kind |-> "no_relevant_complaints"]
        /\ result.examples = <<>>
        /\ result.llm_mode = "no-key"
        /\ calls = <<"qual.handle">>
        /\ provider_end = None

\* A key is set and the frame has a row, yet no example was retrieved: the
\* provider was not called.
C12_Witness ==
    /\ pc = "returned" /\ qtype = "qual" /\ _ANTHROPIC_KEY
    /\ Len(cleaned_df.rows) > 0
    /\ result.confidence.showing = 0
    /\ result.answer.kind = "no_relevant_complaints"
    /\ calls = <<"qual.handle">>

(***************************************************************************)
(* The retrieval of the question in `query` over the Router's frame and    *)
(* theme table, in the terms of the retrieval rules.                       *)
(***************************************************************************)
\* The words of the question, lower-cased.
QuestionWords == {Lower(query[i]) : i \in 1..Len(query)}

\* The themes, by position in the table, whose label shares a word with the
\* question.
ThemesNamed ==
    {k \in 1..Len(themes_df) :
        {Lower(themes_df[k].label[j]) : j \in 1..Len(themes_df[k].label)}
            \cap QuestionWords # {}}

\* The rows of the frame assigned to the theme at position k of the table.
RowsOfTheme(k) ==
    {i \in RowIdx(cleaned_df) : cleaned_df.rows[i]["theme_id"] = themes_df[k].theme_id}

\* The question's words longer than three characters that are no stop words.
QuestionKeywords == {w \in QuestionWords : w \notin ShortWords /\ w \notin StopSet}

\* The rows among `rows` whose searched text contains a keyword.
RowsWithKeyword(rows) ==
    LET col == IF "text_clean" \in cleaned_df.cols THEN "text_clean" ELSE "complaint_text"
    IN  {i \in rows : /\ cleaned_df.rows[i][col] # Null
                      /\ \E k \in QuestionKeywords : Contains(cleaned_df.rows[i][col], k)}

\* The rows among `rows` that have a text to show.
RowsWithText(rows) ==
    LET col == IF "complaint_text" \in cleaned_df.cols THEN "complaint_text" ELSE "text_clean"
    IN  {i \in rows : cleaned_df.rows[i][col] # Null}

\* C13: when the question has no keyword, or no row of the candidate pool
\* contains one, the matched set is the whole candidate pool, and no example
\* is returned only if no row of the pool has a text.
C13_FallBackToPool ==
    (pc = "returned" /\ qtype = "qual") =>
        LET pool == IF ThemesNamed # {} THEN RowsOfTheme(Min(ThemesNamed))
                    ELSE RowIdx(cleaned_df)
        IN  (QuestionKeywords = {} \/ RowsWithKeyword(pool) = {}) =>
                /\ result.confidence.matched = Cardinality(pool)
                /\ result.confidence.showing =
                       Min({_MAX_EXAMPLES, Cardinality(RowsWithText(pool))})
                /\ result.confidence.showing = 0 <=> RowsWithText(pool) = {}

\* "explain delays": the keywords occur in no row, and the rows of the whole
\* frame are matched and shown.
C13_Witness ==
    /\ pc = "returned" /\ qtype = "qual"
    /\ query = <<"explain", "delays">>
    /\ Len(cleaned_df.rows) = 2
    /\ RowsWithKeyword(RowIdx(cleaned_df)) = {}
    /\ result.confidence.matched = 2
    /\ result.confidence.showing = 2

\* The texts shown for a set of rows: those that are not missing, in row order.
TextsOf(rows) ==
    LET col == IF "complaint_text" \in cleaned_df.cols THEN "complaint_text" ELSE "text_clean"
        shown == SeqOf(RowsWithText(rows))
    IN  [k \in 1..Len(shown) |-> cleaned_df.rows[shown[k]][col]]

\* C14: the candidate pool of a qualitative query is the rows of one theme,
\* the first of the table whose label shares a word with the question, and
\* the whole frame when no label does: the matched rows and the examples of
\* the answer are those found in that pool.
C14_PoolIsFirstNamedTheme ==
    (pc = "returned" /\ qtype = "qual") =>
        LET first == CHOOSE k \in ThemesNamed : \A j \in ThemesNamed : k <= j
            pool == IF ThemesNamed = {} THEN RowIdx(cleaned_df) ELSE RowsOfTheme(first)
            found == IF QuestionKeywords # {} /\ RowsWithKeyword(pool) # {}
                     THEN RowsWithKeyword(pool) ELSE pool
        IN  /\ result.confidence.matched = Cardinality(found)
            /\ result.examples = Head_n(TextsOf(found), 3)

\* "billing issues" names both themes; the first of the table is the app
\* theme, so the pool is the app row although only the billing row holds the
\* keyword.
C14_Witness ==
    /\ pc = "returned" /\ qtype = "qual"
    /\ query = <<"billing", "issues">>
    /\ themes_df = <<ThemeApp, ThemeBill>>
    /\ cleaned_df.rows = <<RowA, RowB>>
    /\ ThemesNamed = {1, 2}
    /\ result.confidence.matched = 1
    /\ result.examples = <<TxtApp>>

\* The method m of the Quantitative Handler answered the last question.
Reached(m) == \E i \in 1..Len(calls) : calls[i] = m

\* The last answer is the explanatory answer `template` with an empty data
\* payload, returned without an exception.
Explains(template) ==
    /\ pc = "returned" /\ exc = None
    /\ result.answer = [template |-> template]
    /\ result.data = <<>>
    /\ result.confidence = "N/A"
    /\ result.query_type = "quantitative"

\* C15: a channel, severity, product/category or trend sub-query on a frame
\* without the column it reads (channel; severity; product_category, product
\* and category; date) returns its explanatory answer with data == {} and
\* raises nothing.
C15_MissingColumnExplained ==
    Finished =>
        /\ (Reached("_channel_query") /\ "channel" \notin cleaned_df.cols)
              => Explains("no_channel_column")
        /\ (Reached("_severity_query") /\ "severity" \notin cleaned_df.cols)
              => Explains("no_severity_column")
        /\ (Reached("_product_query")
              /\ cleaned_df.cols \cap {"product_category", "product", "category"} = {})
              => Explains("no_product_column")
        /\ (Reached("_trend_query") /\ "date" \notin cleaned_df.cols)
              => Explains("no_date_column")

\* "by severity" on a frame with rows and no severity column.
C15_Witness ==
    /\ pc = "returned" /\ query = <<"by", "severity">>
    /\ "severity" \notin cleaned_df.cols /\ Len(cleaned_df.rows) = 2
    /\ calls = <<"quant.handle", "_severity_query">>
    /\ result.data = <<>>
    /\ result.answer.template = "no_severity_column"

\* The sub-categories of QuantHandler.handle in their order of test: the
\* pattern of each and the calls made for it.
SubCategories ==
    << [pattern |-> CountPatterns,    made |-> <<"_count_query">>],
       [pattern |-> TopThemePatterns, made |-> <<"_top_themes_query">>],
       [pattern |-> ThemePatterns,    made |-> <<"_all_themes_query", "_top_themes_query">>],
       [pattern |-> ChannelPatterns,  made |-> <<"_channel_query">>],
       [pattern |-> TrendPatterns,    made |-> <<"_trend_query">>],
       [pattern |-> SeverityPatterns, made |-> <<"_severity_query">>],
       [pattern |-> ProductPatterns,  made |-> <<"_product_query">>] >>

\* The positions in SubCategories of the patterns found in the question.
SubCategoriesOf(q) ==
    {i \in 1..Len(SubCategories) : search(SubCategories[i].pattern, LowerAll(q))}

\* C16: the Quantitative Handler answers with the first sub-category, in the
\* order count, top themes, all themes, channel, trend, severity, product,
\* whose pattern is found in the question, and with no other; it answers
\* with the general summary exactly when none is found.
C16_FirstSubCategoryAnswers ==
    (Finished /\ qtype = "quant") =>
        LET found == SubCategoriesOf(query)
            earliest == CHOOSE i \in found : \A j \in found : i <= j
        IN  /\ found # {} => calls = <<"quant.handle">> \o SubCategories[earliest].made
            /\ found = {} <=> calls = <<"quant.handle", "_general_stats">>

\* "how many complaints by channel" has the count and the channel pattern:
\* the count query alone answers it.
C16_Witness ==
    /\ Finished /\ qtype = "quant" /\ query = QByChannelCount
    /\ SubCategoriesOf(query) = {1, 4}
    /\ calls = <<"quant.handle", "_count_query">>

(***************************************************************************)
(* Properties of a Router's lifetime (SpecSession)                         *)
(***************************************************************************)
\* What a Router newly built on the caller's frame and table answers to the
\* question q when the provider call, if one is made, ends as `outcome`.
FreshAnswer(q, outcome) ==
    LET r == dispatch(classify(q), _prepare(cleaned_df), cleaned_df, themes_df, q,
                      _ANTHROPIC_KEY, _OPENAI_KEY, outcome)
    IN  <<r.value, r.exc>>

\* C17: building the Router and answering questions leave the caller's frame
\* and theme table as they were, answering leaves the handlers' frames as
\* they were, and the answer to a question is the answer a newly built
\* Router gives to it, whatever was asked before.
C17_NothingCarriedOver ==
    /\ [](pc \in {"returned", "raised"} =>
              \E outcome \in ProviderOutcomes :
                  <<result, exc>> = FreshAnswer(query, outcome))
    /\ [][ /\ cleaned_df' = cleaned_df
           /\ themes_df' = themes_df
           /\ pc # "new" => (quant_df' = quant_df /\ qual_df' = qual_df) ]_vars

\* The second question to a Router on a frame with dates has been answered,
\* and the caller's frame has none of the handler's derived columns.
C17_Witness ==
    /\ pc = "returned" /\ answered = 2
    /\ query = <<"weekly", "trend">>
    /\ "_week" \in quant_df.cols /\ "_week" \notin cleaned_df.cols
    /\ Len(cleaned_df.rows) = 2
    /\ qual_df = cleaned_df

(***************************************************************************)
(* Properties of the theme table (SpecExtract, SpecRerun)                  *)
(***************************************************************************)
\* The documents, by position, that carry the theme id c.
DocsOfTheme(c) == {i \in 1..Len(theme_id) : theme_id[i] = c}

RECURSIVE SumOfCounts(_)
SumOfCounts(recs) ==
    IF recs = <<>> THEN 0 ELSE Head(recs).count + SumOfCounts(Tail(recs))

\* C18: after extract_themes every document has one theme id, in 0..K-1 for
\* the effective cluster count K; the count of every theme record is the
\* number of documents with its theme id; the counts add up to the number
\* of documents.
C18_CountsPartitionDocuments ==
    pc = "extracted" =>
        /\ DOMAIN theme_id = 1..Len(texts)
        /\ \A i \in 1..Len(texts) : theme_id[i] \in 0..(km_n_clusters - 1)
        /\ \A j \in 1..Len(records) :
               records[j].count = Cardinality(DocsOfTheme(records[j].theme_id))
        /\ SumOfCounts(records) = Len(texts)

\* Six documents in two themes of four and two.
C18_Witness ==
    /\ pc = "extracted" /\ Len(texts) = 6 /\ km_n_clusters = 2
    /\ Cardinality(DocsOfTheme(1)) = 4 /\ Cardinality(DocsOfTheme(0)) = 2
    /\ records[1].count = 4 /\ records[2].count = 2

\* C19: the theme table has one record for every cluster id in 0..K-1, in
\* falling order of count, and the theme_id of a record is the id of the
\* cluster whose documents it counts and shows and whose centroid its
\* keywords come from, wherever the sort has put the record.
C19_RecordsKeepClusterIds ==
    pc = "extracted" =>
        /\ Len(records) = km_n_clusters
        /\ \A c \in 0..(km_n_clusters - 1) :
               Cardinality({j \in 1..Len(records) : records[j].theme_id = c}) = 1
        /\ \A j \in 1..(Len(records) - 1) : records[j].count >= records[j + 1].count
        /\ \A j \in 1..Len(records) :
               LET r == records[j]
               IN  /\ r.count = Cardinality(DocsOfTheme(r.theme_id))
                   /\ r.example_texts = Head_n(SeqOf(DocsOfTheme(r.theme_id)), 3)
                   /\ r.top_keywords.centroid = r.theme_id

\* The largest cluster is not cluster 0: the first record has theme id 2.
C19_Witness ==
    /\ pc = "extracted" /\ km_n_clusters = 3
    /\ records[1].theme_id = 2 /\ records[1].count = 3
    /\ DocsOfTheme(2) = {1, 2, 4}
    /\ records[1].example_texts = <<1, 2, 4>>

RulesMet ==
    {r \in 1..Len(_LABEL_RULES) :
        \E i \in 1..Len(args) : i <= 8 /\ args[i] \in _LABEL_RULES[r].keywords}

WeightOf(term) ==
    args.centroid[CHOOSE f \in 1..Len(feature_names) : feature_names[f] = term]

\* C22: the keyword list of a theme has at most n_top_keywords entries, no
\* term twice, and is in falling order of the terms' weights in the
\* cluster's centroid; no term left out outweighs a term listed.
C22_KeywordsByWeight ==
    pc = "listed" =>
        /\ Len(ret) <= args.n_top_keywords
        /\ \A i, j \in 1..Len(ret) : i # j => ret[i] # ret[j]
        /\ \A i \in 1..(Len(ret) - 1) : WeightOf(ret[i]) >= WeightOf(ret[i + 1])
        /\ \A f \in 1..Len(feature_names) :
               (\A i \in 1..Len(ret) : ret[i] # feature_names[f]) =>
                   \A i \in 1..Len(ret) : WeightOf(ret[i]) >= args.centroid[f]

\* Two keywords asked for from weights 0, 2, 1, 0: "fee", then "loan".
C22_Witness ==
    /\ pc = "listed" /\ args.n_top_keywords = 2
    /\ args.centroid = <<0, 2, 1, 0>>
    /\ ret = <<"fee", "loan">>

(***************************************************************************)
(* Properties of the offline fallback (SpecNoKey)                          *)
(***************************************************************************)
\* The prompt lines, by position, whose stripped content is kept: they start
\* with a dash or a quote and hold more than 15 characters without the marks.
KeptLines ==
    {i \in 1..Len(args) :
        /\ \/ startswith(strip(args[i], {" "}), "-")
           \/ startswith(strip(args[i], {" "}), "\"")
        /\ len(Unmarked(args[i])) > 15}

\* C23: without a key, complete() makes no provider call and returns the tag
\* "no-key" with a response fixed by the prompt: the stripped bullet lines
\* longer than 15 characters, the first 4 in prompt order, each cut to 120
\* characters (all three when there are three), or the fixed template when
\* there is none.
C23_NoKeyListsBullets ==
    pc = "completed" =>
        /\ ret[2] = "no-key"
        /\ calls = <<"complete", "_no_key">>
        /\ IF KeptLines = {} THEN ret[1] = [kind |-> "no_key_template"]
           ELSE LET first4 == Head_n(SeqOf(KeptLines), 4)
                IN  /\ ret[1].kind = "no_key_bullets"
                    /\ Len(ret[1].bullets) = Len(first4)
                    /\ Cardinality(KeptLines) = 3 => Len(ret[1].bullets) = 3
                    /\ \A k \in 1..Len(first4) :
                          /\ ret[1].bullets[k] = Slice(Unmarked(args[first4[k]]), 120)
                          /\ len(ret[1].bullets[k]) = Min({120, len(Unmarked(args[first4[k]]))})

\* Five lines are kept, four are listed, and a 130-character one is cut to 120.
C23_Witness ==
    /\ pc = "completed"
    /\ Cardinality(KeptLines) = 5
    /\ Len(ret[1].bullets) = 4
    /\ \E k \in 1..4 : len(ret[1].bullets[k]) = 120 /\ ret[1].bullets[k][1].id = "long wait"

(***************************************************************************)
(* Properties of the examples of a qualitative answer (SpecExamples)       *)
(***************************************************************************)
\* The texts quoted by the bullet lines of a prompt, in line order.
QuotedIn(prompt) ==
    LET IsBullet(line) == startswith(line, "-")
        quoted == SelectSeq(prompt.lines, IsBullet)
    IN  [k \in 1..Len(quoted) |-> quoted[k][4].id]

\* C24: a qualitative query retrieves the texts of its matched rows in row
\* order, at most 8 of them, and quotes exactly these in the prompt; the
\* examples of the answer are the first (at most) 3 of them, in order, and
\* never more than the matched rows the confidence note reports.
C24_ExamplesAreFirstOfRetrieved ==
    (pc = "returned" /\ qtype = "qual") =>
        LET pool == IF ThemesNamed = {} THEN RowIdx(cleaned_df)
                    ELSE RowsOfTheme(Min(ThemesNamed))
            found == IF QuestionKeywords # {} /\ RowsWithKeyword(pool) # {}
                     THEN RowsWithKeyword(pool) ELSE pool
        IN  /\ Len(ret) <= 8
            /\ ret = Head_n(TextsOf(found), 8)
            /\ IF ret = <<>> THEN args = <<>>
               ELSE Len(args) = 1 /\ QuotedIn(args[1]) = ret
            /\ Len(result.examples) <= 3
            /\ result.examples = Head_n(ret, 3)
            /\ result.confidence.matched = Cardinality(found)
            /\ Len(ret) <= result.confidence.matched
            /\ Len(result.examples) <= result.confidence.matched

\* Ten rows are matched, each with a text: eight are retrieved and quoted in
\* the prompt, the first three are the examples.
C24_Witness ==
    /\ pc = "returned" /\ qtype = "qual"
    /\ query = <<"explain", "delays">>
    /\ Len(cleaned_df.rows) = 10
    /\ result.confidence.matched = 10
    /\ Len(ret) = 8
    /\ Len(args) = 1 /\ Len(QuotedIn(args[1])) = 8
    /\ result.examples = <<TxtBill, TxtBill, TxtApp>>

(***************************************************************************)
(* Properties of clean (SpecClean)                                         *)
(***************************************************************************)
\* The rows of the returned frame carry the labels 0..n-1 in order, and their
\* text_clean is the normalized text, of at least min_text_length characters.
CleanRowsNormalized ==
    \A i \in 1..Len(ret[1]) :
        /\ ret[1][i].index = i - 1
        /\ ret[1][i].text_clean = normalize_text(ret[1][i].text.value)
        /\ len(ret[1][i].text_clean) >= args.min_text_length

\* C25: every row of the frame clean returns has the normalized text as its
\* text_clean, non-empty and of at least min_text_length characters, and the
\* frame's index is 0..n-1 whatever rows were dropped.
C25_CleanRowsNonEmpty ==
    pc = "cleaned" =>
        /\ CleanRowsNormalized
        /\ \A i \in 1..Len(ret[1]) : len(ret[1][i].text_clean) > 0

\* C27: the metrics of clean account for every input row: rows_in less the
\* four drop counters is rows_out, rows_out is the length of the returned
\* frame, no counter is negative, and dropped_duplicates is 0 when
\* drop_duplicates is off.
C27_MetricsAccountForRows ==
    pc = "cleaned" =>
        LET m == ret[2]
        IN  /\ m.rows_in = Len(args.df)
            /\ m.rows_in - (m.dropped_all_null_rows + m.dropped_null_text
                            + m.dropped_duplicates + m.dropped_short_text) = m.rows_out
            /\ m.rows_out = Len(ret[1])
            /\ m.dropped_all_null_rows >= 0 /\ m.dropped_null_text >= 0
            /\ m.dropped_duplicates >= 0 /\ m.dropped_short_text >= 0
            /\ ~args.drop_duplicates => m.dropped_duplicates = 0

\* Four rows in; a blank text, a repeated text and a 9-character text are
\* dropped, one row is returned.
C27_Witness ==
    /\ pc = "cleaned"
    /\ args.drop_duplicates /\ args.min_text_length = 10
    /\ ret[2].rows_in = 4
    /\ ret[2].dropped_null_text = 1
    /\ ret[2].dropped_duplicates = 1
    /\ ret[2].dropped_short_text = 1
    /\ ret[2].rows_out = 1 /\ Len(ret[1]) = 1

(***************************************************************************)
(* Properties of the provenance tag of complete (Spec)                     *)
(***************************************************************************)
\* C26: the tag complete() returns is fixed by the configured keys, Anthropic
\* before OpenAI before offline: "anthropic" or "anthropic-error" with an
\* Anthropic key, whether or not an OpenAI key is set; "openai" or
\* "openai-error" with an OpenAI key alone; "no-key", with no provider
\* called, with neither.
C26_TagFollowsKeys ==
    (pc = "returned" /\ CallsTo({"complete"}) # <<>>) =>
        /\ _ANTHROPIC_KEY =>
              /\ result.llm_mode \in {"anthropic", "anthropic-error"}
              /\ result.llm_mode = "anthropic" <=> provider_end = "ok"
        /\ (~_ANTHROPIC_KEY /\ _OPENAI_KEY) =>
              /\ result.llm_mode \in {"openai", "openai-error"}
              /\ result.llm_mode = "openai" <=> provider_end = "ok"
        /\ (~_ANTHROPIC_KEY /\ ~_OPENAI_KEY) =>
              /\ result.llm_mode = "no-key"
              /\ CallsTo({"_anthropic", "_openai"}) = <<>>

\* Both keys are set and the Anthropic call fails: the tag is
\* "anthropic-error" and OpenAI is not asked.
C26_Witness ==
    /\ pc = "returned"
    /\ _ANTHROPIC_KEY /\ _OPENAI_KEY
    /\ provider_end = "APIError"
    /\ result.llm_mode = "anthropic-error"
    /\ CallsTo({"complete"}) = <<"complete">>
    /\ CallsTo({"_openai"}) = <<>>

====
